--------------------------- MODULE AnomalyDetector ---------------------------
(***************************************************************************)
(* anomaly/AnomalyDetector.cpp.  runAll() visits the users by id and feeds *)
(* each user's timeline, sorted by time, to processEvent(), which applies  *)
(* fourteen rules to the context of the user and of the device of the      *)
(* event.                                                                  *)
(*                                                                         *)
(* The windows of the contexts are sliding windows: RingBuffer is shown to *)
(* implement them.  Three members are left out: lastDeviceId and           *)
(* firstActivityTimestamp, which no rule reads, and the context's own id.  *)
(***************************************************************************)
EXTENDS AnomalyRules, SlidingWindow

CONSTANTS
    UserCount,      \* users are the ids 0 .. UserCount - 1
    Devices,        \* the devices that occur in Entries
    Entries,        \* the log entries a timeline may hold
    MaxEvents       \* bound on the number of entries of a run

EventTypes ==
    {"LOGIN", "LOGOUT", "TOKEN_REFRESH", "ACCESS", "FAILED_LOGIN", "OPEN_APP",
     "DOWNLOAD", "ADMIN_ACTION"}

(* The parser lets neither a negative timestamp nor an unknown event type  *)
(* or location into a log, and Location is an enumeration that starts at 0.*)
ASSUME EntriesAssumption ==
    /\ UserCount \in Nat \ {0}
    /\ MaxEvents \in Nat
    /\ Entries \subseteq [eventType : EventTypes, timestamp : Nat,
                          userId : 0 .. UserCount - 1, deviceId : Devices,
                          appId : Nat, resourceId : Nat, location : 0 .. 254]

VARIABLES
    cursor,         \* the user whose timeline runAll() is reading
    userContexts,
    deviceContexts,
    results,        \* the anomalies recorded: the rule and the position in log
    log             \* history: the entries processed so far

vars == <<cursor, userContexts, deviceContexts, results, log>>

Users == 0 .. UserCount - 1

LOC_US == 0
LOC_INVALID == 255

NewUserContext ==
    [hasActivity            |-> FALSE,
     lastActivityTimestamp  |-> 0,
     lastLocation           |-> LOC_INVALID,
     failedLoginWindow      |-> EmptyWindow,
     deviceHopWindow        |-> EmptyWindow,
     countryWindow          |-> EmptyWindow,
     sessionStartWindow     |-> EmptyWindow,
     exfiltrationWindow     |-> EmptyWindow,
     appWindow              |-> EmptyWindow,
     outOfHoursReported     |-> FALSE,
     exfiltrationReported   |-> FALSE,
     lateralMovementReported |-> FALSE,
     hasActiveSession       |-> FALSE,
     sessionStartTimestamp  |-> 0,
     dangerousActionCount   |-> 0,
     consecutiveFailedCount |-> 0,
     wasLongDormant         |-> FALSE,
     burstEventCount        |-> 0,
     dormantWakeupTimestamp |-> 0]

NewDeviceContext ==
    [resourceWindow      |-> EmptyWindow,
     userWindow          |-> EmptyWindow,
     compromisedReported |-> FALSE]

(* Mutant of Noting: a full window keeps its oldest event. *)
NotingBeyondCapacity(enters, capacity, window, e, value) ==
    IF enters THEN Append(window, [ts |-> e.timestamp, value |-> value]) ELSE window

(* A timestamped window that e enters with the given value, if it does. *)
Noting(enters, capacity, window, e, value) ==
    IF enters THEN Pushed(capacity, window, [ts |-> e.timestamp, value |-> value])
    ELSE window

(* Mutant of ClearedIf: clear() forgotten. *)
NeverCleared(fired, window) == window

(* The windows that a rule empties when it fires. *)
ClearedIf(fired, window) == IF fired THEN EmptyWindow ELSE window

Is(e, type) == e.eventType = type
IsDangerous(e) == Is(e, "ADMIN_ACTION") \/ Is(e, "DOWNLOAD")

HourUTC(timestamp) == ((timestamp + 25200) % 86400) \div 3600
-----------------------------------------------------------------------------
(* Rule 1 *)
Failures(u, e) ==
    Noting(Is(e, "FAILED_LOGIN"), BRUTE_FORCE_THRESHOLD, u.failedLoginWindow, e, 0)

BruteForce(u, e) ==
    /\ Is(e, "FAILED_LOGIN")
    /\ Breached(BRUTE_FORCE_THRESHOLD, Failures(u, e), e.timestamp,
                BRUTE_FORCE_WINDOW_SEC)

(* Rule 2 *)
LoginDevices(u, e) ==
    Noting(Is(e, "LOGIN"), DEVICE_HOP_THRESHOLD, u.deviceHopWindow, e, e.deviceId)

(* Mutant of DeviceHopping: countUnique() not asked. *)
LoginsHopping(u, e) ==
    /\ Is(e, "LOGIN")
    /\ Breached(DEVICE_HOP_THRESHOLD, LoginDevices(u, e), e.timestamp,
                DEVICE_HOP_WINDOW_SEC)

DeviceHopping(u, e) ==
    /\ Is(e, "LOGIN")
    /\ Breached(DEVICE_HOP_THRESHOLD, LoginDevices(u, e), e.timestamp,
                DEVICE_HOP_WINDOW_SEC)
    /\ Unique(LoginDevices(u, e)) >= DEVICE_HOP_THRESHOLD

(* Rule 3.  Id 0 is the first string the pool interned. *)
(* Mutant of Resources: the test of id 0 around the scan only. *)
ResourcesWithZero(d, e) ==
    Noting(TRUE, RESOURCE_SCAN_THRESHOLD, d.resourceWindow, e, e.resourceId)

Resources(d, e) ==
    Noting(e.resourceId # 0, RESOURCE_SCAN_THRESHOLD, d.resourceWindow, e, e.resourceId)

ResourceScan(d, e) ==
    /\ e.resourceId # 0
    /\ Breached(RESOURCE_SCAN_THRESHOLD, Resources(d, e), e.timestamp,
                RESOURCE_SCAN_WINDOW_SEC)
    /\ Unique(Resources(d, e)) >= RESOURCE_SCAN_THRESHOLD

(* Rule 4 *)
OffWork(e) ==
    HourUTC(e.timestamp) < WORK_HOUR_START \/ HourUTC(e.timestamp) >= WORK_HOUR_END

(* Mutant of OutOfHours: the flag not tested. *)
OutOfHoursEveryTime(u, e) == OffWork(e)

OutOfHours(u, e) == ~u.outOfHoursReported /\ OffWork(e)

(* Rules 5 and 6 compare locations with 0. *)
ImpossibleTravel(u, e) ==
    /\ u.hasActivity
    /\ u.lastLocation # 0
    /\ e.location # 0
    /\ e.location # u.lastLocation
    /\ e.timestamp - u.lastActivityTimestamp < IMPOSSIBLE_TRAVEL_MIN_SEC

EntersCountry(u, e) ==
    /\ e.location # 0
    /\ ~u.hasActivity \/ e.location # u.lastLocation

Countries(u, e) ==
    Noting(EntersCountry(u, e), CountryCapacity, u.countryWindow, e, e.location)

(* Mutant of MultiCountryHopping: countUnique() not asked. *)
CountryChanges(u, e) ==
    /\ EntersCountry(u, e)
    /\ Breached(CountryCapacity, Countries(u, e), e.timestamp,
                MULTI_COUNTRY_WINDOW_SEC)

MultiCountryHopping(u, e) ==
    /\ EntersCountry(u, e)
    /\ Breached(CountryCapacity, Countries(u, e), e.timestamp,
                MULTI_COUNTRY_WINDOW_SEC)
    /\ Unique(Countries(u, e)) >= MULTI_COUNTRY_THRESHOLD
-----------------------------------------------------------------------------
(* Rule 7 is applied at three places of processEvent(): to the session a   *)
(* LOGIN overrides, to the open session of any event, and to a LOGOUT      *)
(* whether or not a session is open.                                       *)
IsLong(u, e) == e.timestamp - u.sessionStartTimestamp > MAX_SESSION_DURATION_SEC

OpenSession(u, e) == u.hasActiveSession \/ Is(e, "LOGIN")

LongOverridden(u, e) == Is(e, "LOGIN") /\ u.hasActiveSession /\ IsLong(u, e)

(* The session that a LOGIN has just opened has lasted for 0 seconds. *)
LongOpen(u, e) == ~Is(e, "LOGIN") /\ u.hasActiveSession /\ IsLong(u, e)

LongLoggedOut(u, e) == Is(e, "LOGOUT") /\ IsLong(u, e)

(* Mutant of SessionAfter: a reported session stays connected. *)
SessionStaysOpen(u, e) == OpenSession(u, e) /\ ~Is(e, "LOGOUT")

SessionAfter(u, e) == OpenSession(u, e) /\ ~LongOpen(u, e) /\ ~Is(e, "LOGOUT")

(* Rule 8.  The session rule 7 has just disconnected still counts. *)
Counts(u, e) == IsDangerous(e) /\ u.hasActiveSession

DangerChain(u, e) ==
    Counts(u, e) /\ u.dangerousActionCount + 1 >= DANGER_CHAIN_THRESHOLD

(* Mutant of DangerousActions: a new session goes on counting. *)
DangerousActionsEver(u, e) ==
    IF DangerChain(u, e) THEN 0
    ELSE IF Counts(u, e) THEN u.dangerousActionCount + 1
    ELSE u.dangerousActionCount

DangerousActions(u, e) ==
    IF Is(e, "LOGIN") \/ DangerChain(u, e) THEN 0
    ELSE IF Counts(u, e) THEN u.dangerousActionCount + 1
    ELSE u.dangerousActionCount

(* Rule 9 *)
(* Mutant of Logins: a refreshed token counts as a session. *)
LoginsAndRefreshes(u, e) ==
    Noting(Is(e, "LOGIN") \/ Is(e, "TOKEN_REFRESH"), RAPID_SESSION_THRESHOLD,
           u.sessionStartWindow, e, 0)

Logins(u, e) ==
    Noting(Is(e, "LOGIN"), RAPID_SESSION_THRESHOLD, u.sessionStartWindow, e, 0)

RapidSession(u, e) ==
    /\ Is(e, "LOGIN")
    /\ Breached(RAPID_SESSION_THRESHOLD, Logins(u, e), e.timestamp,
                RAPID_SESSION_WINDOW_SEC)

(* Rule 10 *)
BruteForceSuccess(u, e) ==
    Is(e, "LOGIN") /\ u.consecutiveFailedCount >= BRUTE_FORCE_THRESHOLD

(* Mutant of FailedInARow: only a login resets the count. *)
FailedSinceLogin(u, e) ==
    IF Is(e, "FAILED_LOGIN") THEN u.consecutiveFailedCount + 1
    ELSE IF Is(e, "LOGIN") THEN 0 ELSE u.consecutiveFailedCount

FailedInARow(u, e) ==
    IF Is(e, "FAILED_LOGIN") THEN u.consecutiveFailedCount + 1 ELSE 0

(* Rule 11 *)
WakesUp(u, e) ==
    /\ u.hasActivity
    /\ e.timestamp - u.lastActivityTimestamp > DORMANT_THRESHOLD_SEC

WakeupTimestamp(u, e) ==
    IF WakesUp(u, e) THEN e.timestamp ELSE u.dormantWakeupTimestamp

InBurst(u, e) ==
    /\ u.wasLongDormant \/ WakesUp(u, e)
    /\ e.timestamp - WakeupTimestamp(u, e) <= DORMANT_BURST_WINDOW_SEC

(* Mutant of BurstEvents: a second awakening goes on counting. *)
BurstEventsEver(u, e) == u.burstEventCount + (IF InBurst(u, e) THEN 1 ELSE 0)

BurstEvents(u, e) ==
    (IF WakesUp(u, e) THEN 0 ELSE u.burstEventCount)
        + (IF InBurst(u, e) THEN 1 ELSE 0)

DormantAccount(u, e) ==
    InBurst(u, e) /\ BurstEvents(u, e) = DORMANT_BURST_THRESHOLD

(* Rule 12 *)
NightDownload(e) == Is(e, "DOWNLOAD") /\ HourUTC(e.timestamp) < WORK_HOUR_START

(* Mutant of Downloads: downloads by day enter the window too. *)
DownloadsAnyHour(u, e) ==
    Noting(Is(e, "DOWNLOAD"), EXFILTRATION_THRESHOLD, u.exfiltrationWindow, e, e.resourceId)

Downloads(u, e) ==
    Noting(NightDownload(e), EXFILTRATION_THRESHOLD, u.exfiltrationWindow, e, e.resourceId)

DataExfiltration(u, e) ==
    /\ NightDownload(e)
    /\ ~u.exfiltrationReported
    /\ Breached(EXFILTRATION_THRESHOLD, Downloads(u, e), e.timestamp,
                EXFILTRATION_WINDOW_SEC)
    /\ Unique(Downloads(u, e)) >= EXFILTRATION_THRESHOLD

(* Rule 13 *)
DeviceUsers(d, e) ==
    Noting(Is(e, "LOGIN"), COMPROMISED_DEVICE_THRESHOLD, d.userWindow, e, e.userId)

(* Mutant of CompromisedDevice: countUnique() not asked. *)
BusyDevice(d, e) ==
    /\ Is(e, "LOGIN")
    /\ ~d.compromisedReported
    /\ Breached(COMPROMISED_DEVICE_THRESHOLD, DeviceUsers(d, e), e.timestamp,
                COMPROMISED_DEVICE_WINDOW_SEC)

CompromisedDevice(d, e) ==
    /\ Is(e, "LOGIN")
    /\ ~d.compromisedReported
    /\ Breached(COMPROMISED_DEVICE_THRESHOLD, DeviceUsers(d, e), e.timestamp,
                COMPROMISED_DEVICE_WINDOW_SEC)
    /\ Unique(DeviceUsers(d, e)) >= COMPROMISED_DEVICE_THRESHOLD

(* Rule 14 *)
(* Mutant of Apps: only OPEN_APP names an app. *)
OpenedApps(u, e) ==
    Noting(Is(e, "OPEN_APP"), LATERAL_MOVEMENT_THRESHOLD, u.appWindow, e, e.appId)

Apps(u, e) == Noting(TRUE, LATERAL_MOVEMENT_THRESHOLD, u.appWindow, e, e.appId)

LateralMovement(u, e) ==
    /\ ~u.lateralMovementReported
    /\ Breached(LATERAL_MOVEMENT_THRESHOLD, Apps(u, e), e.timestamp,
                LATERAL_MOVEMENT_WINDOW_SEC)
    /\ Unique(Apps(u, e)) >= LATERAL_MOVEMENT_THRESHOLD
-----------------------------------------------------------------------------
(* The anomalies one event records.  The three places of rule 7 are told   *)
(* apart: all three are recorded as LONG_SESSION, and one event may record *)
(* more than one of them.                                                  *)
LongSessionRules == {"LONG_OVERRIDDEN", "LONG_OPEN", "LONG_LOGGED_OUT"}

Rules == LongSessionRules \cup
    {"BRUTE_FORCE", "DEVICE_HOPPING", "RESOURCE_SCAN", "OUT_OF_HOURS",
     "IMPOSSIBLE_TRAVEL", "MULTI_COUNTRY_HOPPING", "DANGER_CHAIN",
     "RAPID_SESSION", "BRUTE_FORCE_SUCCESS", "DORMANT_ACCOUNT",
     "DATA_EXFILTRATION", "COMPROMISED_DEVICE", "LATERAL_MOVEMENT"}

Fires(rule, u, d, e) ==
    \/ rule = "LONG_OVERRIDDEN"       /\ LongOverridden(u, e)
    \/ rule = "BRUTE_FORCE"           /\ BruteForce(u, e)
    \/ rule = "DEVICE_HOPPING"        /\ DeviceHopping(u, e)
    \/ rule = "RESOURCE_SCAN"         /\ ResourceScan(d, e)
    \/ rule = "OUT_OF_HOURS"          /\ OutOfHours(u, e)
    \/ rule = "IMPOSSIBLE_TRAVEL"     /\ ImpossibleTravel(u, e)
    \/ rule = "MULTI_COUNTRY_HOPPING" /\ MultiCountryHopping(u, e)
    \/ rule = "LONG_OPEN"             /\ LongOpen(u, e)
    \/ rule = "DANGER_CHAIN"          /\ DangerChain(u, e)
    \/ rule = "RAPID_SESSION"         /\ RapidSession(u, e)
    \/ rule = "LONG_LOGGED_OUT"       /\ LongLoggedOut(u, e)
    \/ rule = "BRUTE_FORCE_SUCCESS"   /\ BruteForceSuccess(u, e)
    \/ rule = "DORMANT_ACCOUNT"       /\ DormantAccount(u, e)
    \/ rule = "DATA_EXFILTRATION"     /\ DataExfiltration(u, e)
    \/ rule = "COMPROMISED_DEVICE"    /\ CompromisedDevice(d, e)
    \/ rule = "LATERAL_MOVEMENT"      /\ LateralMovement(u, e)

UserAfter(u, e) ==
    [hasActivity            |-> TRUE,
     lastActivityTimestamp  |-> e.timestamp,
     lastLocation           |-> e.location,
     failedLoginWindow      |-> ClearedIf(BruteForce(u, e), Failures(u, e)),
     deviceHopWindow        |-> ClearedIf(DeviceHopping(u, e), LoginDevices(u, e)),
     countryWindow          |-> ClearedIf(MultiCountryHopping(u, e), Countries(u, e)),
     sessionStartWindow     |-> ClearedIf(RapidSession(u, e), Logins(u, e)),
     exfiltrationWindow     |-> Downloads(u, e),
     appWindow              |-> Apps(u, e),
     outOfHoursReported     |-> u.outOfHoursReported \/ OutOfHours(u, e),
     exfiltrationReported   |-> u.exfiltrationReported \/ DataExfiltration(u, e),
     lateralMovementReported |-> u.lateralMovementReported \/ LateralMovement(u, e),
     hasActiveSession       |-> SessionAfter(u, e),
     sessionStartTimestamp  |-> IF Is(e, "LOGIN") THEN e.timestamp
                                ELSE u.sessionStartTimestamp,
     dangerousActionCount   |-> DangerousActions(u, e),
     consecutiveFailedCount |-> FailedInARow(u, e),
     wasLongDormant         |-> InBurst(u, e),
     burstEventCount        |-> BurstEvents(u, e),
     dormantWakeupTimestamp |-> WakeupTimestamp(u, e)]

DeviceAfter(d, e) ==
    [resourceWindow      |-> ClearedIf(ResourceScan(d, e), Resources(d, e)),
     userWindow          |-> DeviceUsers(d, e),
     compromisedReported |-> d.compromisedReported \/ CompromisedDevice(d, e)]
-----------------------------------------------------------------------------
Init ==
    /\ cursor = 0
    /\ userContexts = [u \in Users |-> NewUserContext]
    /\ deviceContexts = [d \in Devices |-> NewDeviceContext]
    /\ results = {}
    /\ log = << >>

(* One iteration of the inner loop of runAll(): the next entry of the      *)
(* timeline, which is sorted by time.                                      *)
ProcessEvent(e) ==
    LET u == userContexts[e.userId]
        d == deviceContexts[e.deviceId]
    IN  /\ Len(log) < MaxEvents
        /\ e.userId = cursor
        /\ u.hasActivity => u.lastActivityTimestamp <= e.timestamp
        /\ userContexts' = [userContexts EXCEPT ![e.userId] = UserAfter(u, e)]
        /\ deviceContexts' = [deviceContexts EXCEPT ![e.deviceId] = DeviceAfter(d, e)]
        /\ results' = results \cup
              {[rule |-> r, event |-> Len(log) + 1] : r \in {x \in Rules : Fires(x, u, d, e)}}
        /\ log' = Append(log, e)
        /\ UNCHANGED cursor

(* The timeline ends, whatever its length: the outer loop moves on. *)
NextUser ==
    /\ cursor < UserCount - 1
    /\ cursor' = cursor + 1
    /\ UNCHANGED <<userContexts, deviceContexts, results, log>>

Next ==
    \/ \E e \in Entries : ProcessEvent(e)
    \/ NextUser

Spec == Init /\ [][Next]_vars
=============================================================================
