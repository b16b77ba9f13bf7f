----------------------- MODULE AnomalyDetector_proofs -----------------------
(***************************************************************************)
(* Proofs about AnomalyDetector for all thresholds and capacities, every   *)
(* set of users, devices and log entries, and timelines of every length.   *)
(***************************************************************************)
EXTENDS AnomalyProperties, CommonLemmas, SequenceTheorems, TLAPS

Timed == [ts : Nat, value : Nat \cup Devices]

Thresholds ==
    {BRUTE_FORCE_THRESHOLD, DEVICE_HOP_THRESHOLD, RESOURCE_SCAN_THRESHOLD,
     MULTI_COUNTRY_THRESHOLD, CountryCapacity, DANGER_CHAIN_THRESHOLD,
     RAPID_SESSION_THRESHOLD, DORMANT_BURST_THRESHOLD, EXFILTRATION_THRESHOLD,
     COMPROMISED_DEVICE_THRESHOLD, LATERAL_MOVEMENT_THRESHOLD}

(* The fields of a log entry. *)
LEMMA EntryFields ==
    ASSUME NEW e \in Entries
    PROVE  /\ e.timestamp \in Nat
           /\ e.userId \in Users
           /\ e.deviceId \in Devices
           /\ e.appId \in Nat
           /\ e.resourceId \in Nat
           /\ e.location \in 0 .. 254
BY EntriesAssumption DEF Users

(* An empty window is a window of every capacity. *)
LEMMA EmptyWindowType ==
    ASSUME NEW capacity \in Nat
    PROVE  EmptyWindow \in WindowUpTo(capacity)
<1>1. EmptyWindow \in Seq(Timed) /\ Len(EmptyWindow) = 0
  BY DEF EmptyWindow
<1> QED
  BY <1>1 DEF WindowUpTo, Timed

(* A push never makes a window longer than its capacity: push() keeps      *)
(* count at CAPACITY.                                                      *)
LEMMA PushedType ==
    ASSUME NEW capacity \in Nat \ {0}, NEW window \in WindowUpTo(capacity),
           NEW event \in Timed
    PROVE  Pushed(capacity, window, event) \in WindowUpTo(capacity)
<1>1. window \in Seq(Timed) /\ Len(window) \in Nat /\ Len(window) <= capacity
  BY DEF WindowUpTo, Timed
<1>2. CASE Len(window) < capacity
  <2>1. Append(window, event) \in Seq(Timed)
        /\ Len(Append(window, event)) = Len(window) + 1
    BY <1>1, AppendProperties
  <2> QED
    BY <1>1, <1>2, <2>1 DEF Pushed, WindowUpTo, Timed
<1>3. CASE ~(Len(window) < capacity)
  <2>1. window # << >>
    BY <1>1, <1>3
  <2>2. Tail(window) \in Seq(Timed) /\ Len(Tail(window)) = Len(window) - 1
    BY <1>1, <2>1, HeadTailProperties
  <2>3. Append(Tail(window), event) \in Seq(Timed)
        /\ Len(Append(Tail(window), event)) = Len(window)
    BY <1>1, <2>2, AppendProperties
  <2> QED
    BY <1>1, <1>3, <2>3 DEF Pushed, WindowUpTo, Timed
<1> QED
  BY <1>2, <1>3

(* The same of the windows of the rules, which an event may or may not     *)
(* enter, and which a rule may empty.                                      *)
LEMMA NotingType ==
    ASSUME NEW capacity \in Thresholds, NEW window \in WindowUpTo(capacity),
           NEW e \in Entries, NEW value \in Nat \cup Devices, NEW enters
    PROVE  Noting(enters, capacity, window, e, value) \in WindowUpTo(capacity)
<1>1. [ts |-> e.timestamp, value |-> value] \in Timed
  BY EntryFields DEF Timed
<1>2. capacity \in Nat \ {0}
  BY ThresholdAssumption DEF Thresholds
<1>3. Pushed(capacity, window, [ts |-> e.timestamp, value |-> value])
        \in WindowUpTo(capacity)
  BY <1>1, <1>2, PushedType
<1> QED
  BY <1>3 DEF Noting

(* A window keeps to its capacity when a rule empties it. *)
LEMMA ClearedType ==
    ASSUME NEW capacity \in Thresholds, NEW window \in WindowUpTo(capacity), NEW fired
    PROVE  ClearedIf(fired, window) \in WindowUpTo(capacity)
<1>1. capacity \in Nat
  BY ThresholdAssumption DEF Thresholds
<1> QED
  BY <1>1, EmptyWindowType DEF ClearedIf
-----------------------------------------------------------------------------
(* One event leaves a user's context well typed: its six windows, the      *)
(* counters and the flags.                                                 *)
LEMMA UserAfterType ==
    ASSUME NEW u \in UserContext, NEW e \in Entries
    PROVE  UserAfter(u, e) \in UserContext
<1>1. e.timestamp \in Nat /\ e.location \in 0 .. 255
  BY EntryFields
<1>2. 0 \in Nat \cup Devices /\ e.deviceId \in Nat \cup Devices /\ e.location \in Nat \cup Devices
        /\ e.resourceId \in Nat \cup Devices /\ e.appId \in Nat \cup Devices
  BY EntryFields
<1>3. ClearedIf(BruteForce(u, e), Failures(u, e)) \in WindowUpTo(BRUTE_FORCE_THRESHOLD)
  <2>1. BRUTE_FORCE_THRESHOLD \in Thresholds
    BY DEF Thresholds
  <2>2. u.failedLoginWindow \in WindowUpTo(BRUTE_FORCE_THRESHOLD)
    BY DEF UserContext
  <2>3. Failures(u, e) \in WindowUpTo(BRUTE_FORCE_THRESHOLD)
    BY <1>2, <2>1, <2>2, NotingType DEF Failures
  <2> QED
    BY <2>1, <2>3, ClearedType
<1>4. ClearedIf(DeviceHopping(u, e), LoginDevices(u, e)) \in WindowUpTo(DEVICE_HOP_THRESHOLD)
  <2>1. DEVICE_HOP_THRESHOLD \in Thresholds
    BY DEF Thresholds
  <2>2. u.deviceHopWindow \in WindowUpTo(DEVICE_HOP_THRESHOLD)
    BY DEF UserContext
  <2>3. LoginDevices(u, e) \in WindowUpTo(DEVICE_HOP_THRESHOLD)
    BY <1>2, <2>1, <2>2, NotingType DEF LoginDevices
  <2> QED
    BY <2>1, <2>3, ClearedType
<1>5. ClearedIf(MultiCountryHopping(u, e), Countries(u, e)) \in WindowUpTo(CountryCapacity)
  <2>1. CountryCapacity \in Thresholds
    BY DEF Thresholds
  <2>2. u.countryWindow \in WindowUpTo(CountryCapacity)
    BY DEF UserContext
  <2>3. Countries(u, e) \in WindowUpTo(CountryCapacity)
    BY <1>2, <2>1, <2>2, NotingType DEF Countries
  <2> QED
    BY <2>1, <2>3, ClearedType
<1>6. ClearedIf(RapidSession(u, e), Logins(u, e)) \in WindowUpTo(RAPID_SESSION_THRESHOLD)
  <2>1. RAPID_SESSION_THRESHOLD \in Thresholds
    BY DEF Thresholds
  <2>2. u.sessionStartWindow \in WindowUpTo(RAPID_SESSION_THRESHOLD)
    BY DEF UserContext
  <2>3. Logins(u, e) \in WindowUpTo(RAPID_SESSION_THRESHOLD)
    BY <1>2, <2>1, <2>2, NotingType DEF Logins
  <2> QED
    BY <2>1, <2>3, ClearedType
<1>7. Downloads(u, e) \in WindowUpTo(EXFILTRATION_THRESHOLD)
  <2>1. EXFILTRATION_THRESHOLD \in Thresholds
    BY DEF Thresholds
  <2>2. u.exfiltrationWindow \in WindowUpTo(EXFILTRATION_THRESHOLD)
    BY DEF UserContext
  <2>3. Downloads(u, e) \in WindowUpTo(EXFILTRATION_THRESHOLD)
    BY <1>2, <2>1, <2>2, NotingType DEF Downloads
  <2> QED
    BY <2>1, <2>3, ClearedType
<1>8. Apps(u, e) \in WindowUpTo(LATERAL_MOVEMENT_THRESHOLD)
  <2>1. LATERAL_MOVEMENT_THRESHOLD \in Thresholds
    BY DEF Thresholds
  <2>2. u.appWindow \in WindowUpTo(LATERAL_MOVEMENT_THRESHOLD)
    BY DEF UserContext
  <2>3. Apps(u, e) \in WindowUpTo(LATERAL_MOVEMENT_THRESHOLD)
    BY <1>2, <2>1, <2>2, NotingType DEF Apps
  <2> QED
    BY <2>1, <2>3, ClearedType
<1>9. DangerousActions(u, e) \in 0 .. DANGER_CHAIN_THRESHOLD - 1
  <2>1. DANGER_CHAIN_THRESHOLD \in Nat \ {0}
    BY ThresholdAssumption
  <2>2. u.dangerousActionCount \in 0 .. DANGER_CHAIN_THRESHOLD - 1
    BY DEF UserContext
  <2> QED
    BY <2>1, <2>2 DEF DangerousActions, DangerChain
<1>10. FailedInARow(u, e) \in Nat
  BY DEF FailedInARow, UserContext
<1>11. BurstEvents(u, e) \in Nat
  BY DEF BurstEvents, UserContext
<1>12. WakeupTimestamp(u, e) \in Nat
  BY <1>1 DEF WakeupTimestamp, UserContext
<1>13. (IF Is(e, "LOGIN") THEN e.timestamp ELSE u.sessionStartTimestamp) \in Nat
  BY <1>1 DEF UserContext
<1>14. /\ (u.outOfHoursReported \/ OutOfHours(u, e)) \in BOOLEAN
      /\ (u.exfiltrationReported \/ DataExfiltration(u, e)) \in BOOLEAN
      /\ (u.lateralMovementReported \/ LateralMovement(u, e)) \in BOOLEAN
      /\ SessionAfter(u, e) \in BOOLEAN
      /\ InBurst(u, e) \in BOOLEAN
  BY Zenon DEF SessionAfter, InBurst
<1> QED
  BY <1>1, <1>3, <1>4, <1>5, <1>6, <1>7, <1>8, <1>9, <1>10, <1>11, <1>12,
     <1>13, <1>14
     DEF UserAfter, UserContext

(* One event leaves a device's context well typed. *)
LEMMA DeviceAfterType ==
    ASSUME NEW d \in DeviceContext, NEW e \in Entries
    PROVE  DeviceAfter(d, e) \in DeviceContext
<1>1. ClearedIf(ResourceScan(d, e), Resources(d, e)) \in WindowUpTo(RESOURCE_SCAN_THRESHOLD)
  <2>1. RESOURCE_SCAN_THRESHOLD \in Thresholds
    BY DEF Thresholds
  <2>2. Resources(d, e) \in WindowUpTo(RESOURCE_SCAN_THRESHOLD)
    BY <2>1, EntryFields, NotingType DEF Resources, DeviceContext
  <2> QED
    BY <2>1, <2>2, ClearedType
<1>2. DeviceUsers(d, e) \in WindowUpTo(COMPROMISED_DEVICE_THRESHOLD)
  <2>1. COMPROMISED_DEVICE_THRESHOLD \in Thresholds
    BY DEF Thresholds
  <2>2. e.userId \in Nat \cup Devices
    BY EntryFields, EntriesAssumption DEF Users
  <2> QED
    BY <2>1, <2>2, NotingType DEF DeviceUsers, DeviceContext
<1>3. (d.compromisedReported \/ CompromisedDevice(d, e)) \in BOOLEAN
  BY Zenon
<1> QED
  BY <1>1, <1>2, <1>3 DEF DeviceAfter, DeviceContext

(* The contexts a detector starts with are well typed. *)
LEMMA NewContextTypes == NewUserContext \in UserContext /\ NewDeviceContext \in DeviceContext
<1>1. \A capacity \in Thresholds : EmptyWindow \in WindowUpTo(capacity)
  BY EmptyWindowType, ThresholdAssumption DEF Thresholds
<1>2. 0 \in 0 .. DANGER_CHAIN_THRESHOLD - 1
  BY ThresholdAssumption
<1> QED
  BY <1>1, <1>2 DEF NewUserContext, NewDeviceContext, UserContext, DeviceContext,
                    Thresholds, LOC_INVALID
-----------------------------------------------------------------------------
(* The contexts are well typed before the first event. *)
LEMMA InitTypeOK == Init => TypeOK
<1> SUFFICES ASSUME Init PROVE TypeOK
  OBVIOUS
<1>1. cursor \in Users
  BY EntriesAssumption DEF Init, Users
<1>2. /\ userContexts \in [Users -> UserContext]
      /\ deviceContexts \in [Devices -> DeviceContext]
  BY NewContextTypes DEF Init
<1>3. log \in Seq(Entries) /\ results \subseteq [rule : Rules, event : 1 .. Len(log)]
  BY DEF Init
<1> QED
  BY <1>1, <1>2, <1>3 DEF TypeOK

(* Every step, of whatever event, keeps them well typed. *)
LEMMA NextTypeOK == TypeOK /\ [Next]_vars => TypeOK'
<1> SUFFICES ASSUME TypeOK, [Next]_vars PROVE TypeOK'
  OBVIOUS
<1> USE DEF TypeOK
<1>1. ASSUME NEW e \in Entries, ProcessEvent(e) PROVE TypeOK'
  <2>1. e.userId \in Users /\ e.deviceId \in Devices
    BY EntryFields
  <2>2. userContexts' \in [Users -> UserContext]
    <3>1. UserAfter(userContexts[e.userId], e) \in UserContext
      BY <2>1, UserAfterType
    <3> QED
      BY <1>1, <2>1, <3>1 DEF ProcessEvent
  <2>3. deviceContexts' \in [Devices -> DeviceContext]
    <3>1. DeviceAfter(deviceContexts[e.deviceId], e) \in DeviceContext
      BY <2>1, DeviceAfterType
    <3> QED
      BY <1>1, <2>1, <3>1 DEF ProcessEvent
  <2>4. log' \in Seq(Entries) /\ Len(log') = Len(log) + 1 /\ Len(log) \in Nat
    BY <1>1, AppendProperties DEF ProcessEvent
  <2>5. results' \subseteq [rule : Rules, event : 1 .. Len(log')]
    <3>1. \A r \in results' : r \in results
            \/ \E x \in Rules : r = [rule |-> x, event |-> Len(log) + 1]
      BY <1>1 DEF ProcessEvent
    <3> QED
      BY <2>4, <3>1
  <2> QED
    BY <1>1, <2>2, <2>3, <2>4, <2>5 DEF ProcessEvent
<1>2. CASE NextUser
  BY <1>2, EntriesAssumption DEF NextUser, Users
<1>3. CASE UNCHANGED vars
  BY <1>3 DEF vars
<1> QED
  BY <1>1, <1>2, <1>3 DEF Next

(* The state variables always have their types: no window ever holds more  *)
(* events than its capacity, however runAll() interleaves users on a       *)
(* device, and the count of dangerous actions stays below its threshold.   *)
THEOREM TypeCorrect == Spec => []TypeOK
BY InitTypeOK, NextTypeOK, PTL DEF Spec
-----------------------------------------------------------------------------
(* The flag that a rule reported once per subject leaves behind. *)
Flagged(rule, u, d) ==
    \/ rule = "OUT_OF_HOURS" /\ u.outOfHoursReported
    \/ rule = "DATA_EXFILTRATION" /\ u.exfiltrationReported
    \/ rule = "LATERAL_MOVEMENT" /\ u.lateralMovementReported
    \/ rule = "COMPROMISED_DEVICE" /\ d.compromisedReported

(* A flag, once set, keeps its rule from firing. *)
LEMMA FlagBlocks ==
    ASSUME NEW rule \in OnceRules, NEW u \in UserContext, NEW d \in DeviceContext,
           NEW e \in Entries, Flagged(rule, u, d)
    PROVE  ~Fires(rule, u, d, e)
BY DEF OnceRules, Flagged, Fires, OutOfHours, DataExfiltration, LateralMovement,
       CompromisedDevice

(* A rule that fires sets its flag. *)
LEMMA FiringSetsFlag ==
    ASSUME NEW rule \in OnceRules, NEW u \in UserContext, NEW d \in DeviceContext,
           NEW e \in Entries, Fires(rule, u, d, e)
    PROVE  Flagged(rule, UserAfter(u, e), DeviceAfter(d, e))
BY DEF OnceRules, Flagged, Fires, UserAfter, DeviceAfter

(* No event takes a flag back. *)
LEMMA FlagStays ==
    ASSUME NEW rule \in OnceRules, NEW u \in UserContext, NEW d \in DeviceContext,
           NEW e \in Entries
    PROVE  /\ rule # "COMPROMISED_DEVICE" =>
                \A any1, any2 : Flagged(rule, u, any1) => Flagged(rule, UserAfter(u, e), any2)
           /\ rule = "COMPROMISED_DEVICE" =>
                \A any1, any2 : Flagged(rule, any1, d) => Flagged(rule, any2, DeviceAfter(d, e))
BY DEF OnceRules, Flagged, UserAfter, DeviceAfter

UserAt(r) == userContexts[log[r.event].userId]
DeviceAt(r) == deviceContexts[log[r.event].deviceId]

(* The strengthening of ReportedOnce that is inductive: every report of a  *)
(* rule that reports once has its flag set, in the context of its subject. *)
FlagInv == \A r \in results : r.rule \in OnceRules => Flagged(r.rule, UserAt(r), DeviceAt(r))

OnceInv == TypeOK /\ FlagInv /\ ReportedOnce

(* Reports of the past keep their flag, and the new ones set theirs. *)
LEMMA FlagsKept ==
    ASSUME TypeOK, FlagInv, NEW e \in Entries, ProcessEvent(e)
    PROVE  FlagInv'
<1> DEFINE u == userContexts[e.userId]
           d == deviceContexts[e.deviceId]
<1>1. u \in UserContext /\ d \in DeviceContext
  BY EntryFields DEF TypeOK
<1>2. /\ log \in Seq(Entries) /\ Len(log) \in Nat
      /\ log' = Append(log, e) /\ log' \in Seq(Entries)
      /\ log'[Len(log) + 1] = e
      /\ \A i \in 1 .. Len(log) : log'[i] = log[i] /\ log[i] \in Entries
  BY AppendProperties DEF TypeOK, ProcessEvent
<1>3. userContexts' = [userContexts EXCEPT ![e.userId] = UserAfter(u, e)]
      /\ userContexts \in [Users -> UserContext]
  BY DEF TypeOK, ProcessEvent
<1>4. deviceContexts' = [deviceContexts EXCEPT ![e.deviceId] = DeviceAfter(d, e)]
      /\ deviceContexts \in [Devices -> DeviceContext]
  BY DEF TypeOK, ProcessEvent
<1> SUFFICES ASSUME NEW r \in results', r.rule \in OnceRules
             PROVE  Flagged(r.rule, UserAt(r)', DeviceAt(r)')
  BY DEF FlagInv, Flagged
<1>5. CASE r \in results
  <2>1. r.event \in 1 .. Len(log)
    BY <1>5 DEF TypeOK
  <2> DEFINE old == log[r.event]
  <2>2. old \in Entries /\ log'[r.event] = old
    BY <1>2, <2>1
  <2>3. Flagged(r.rule, userContexts[old.userId], deviceContexts[old.deviceId])
    BY <1>5 DEF FlagInv, UserAt, DeviceAt
  <2>4. old.userId \in Users /\ old.deviceId \in Devices
    BY <2>2, EntryFields
  <2> HIDE DEF old, u, d
  <2>5. CASE r.rule # "COMPROMISED_DEVICE"
    <3>1. \A any1, any2 : Flagged(r.rule, u, any1) => Flagged(r.rule, UserAfter(u, e), any2)
      BY <1>1, <2>5, FlagStays
    <3>2. CASE old.userId = e.userId
      <4>1. userContexts'[old.userId] = UserAfter(u, e)
        BY <1>3, <2>4, <3>2
      <4> QED
        BY <2>2, <2>3, <3>1, <3>2, <4>1 DEF UserAt, DeviceAt, u
    <3>3. CASE old.userId # e.userId
      <4>1. userContexts'[old.userId] = userContexts[old.userId]
        BY <1>3, <2>4, <3>3
      <4> QED
        BY <2>2, <2>3, <2>5, <4>1 DEF UserAt, DeviceAt, Flagged
    <3> QED
      BY <3>2, <3>3
  <2>6. CASE r.rule = "COMPROMISED_DEVICE"
    <3>1. \A any1, any2 : Flagged(r.rule, any1, d) => Flagged(r.rule, any2, DeviceAfter(d, e))
      BY <1>1, <2>6, FlagStays
    <3>2. CASE old.deviceId = e.deviceId
      <4>1. deviceContexts'[old.deviceId] = DeviceAfter(d, e)
        BY <1>4, <2>4, <3>2
      <4> QED
        BY <2>2, <2>3, <3>1, <3>2, <4>1 DEF UserAt, DeviceAt, d
    <3>3. CASE old.deviceId # e.deviceId
      <4>1. deviceContexts'[old.deviceId] = deviceContexts[old.deviceId]
        BY <1>4, <2>4, <3>3
      <4> QED
        BY <2>2, <2>3, <2>6, <4>1 DEF UserAt, DeviceAt, Flagged
    <3> QED
      BY <3>2, <3>3
  <2> QED
    BY <2>5, <2>6
<1>6. CASE r \notin results
  <2>1. r.event = Len(log) + 1 /\ Fires(r.rule, u, d, e)
    BY <1>6 DEF ProcessEvent
  <2>2. Flagged(r.rule, UserAfter(u, e), DeviceAfter(d, e))
    BY <1>1, <2>1, FiringSetsFlag
  <2>3. /\ userContexts'[e.userId] = UserAfter(u, e)
        /\ deviceContexts'[e.deviceId] = DeviceAfter(d, e)
    BY <1>3, <1>4, EntryFields
  <2> QED
    BY <1>2, <2>1, <2>2, <2>3 DEF UserAt, DeviceAt
<1> QED
  BY <1>5, <1>6

(* A new report of a rule that reports once has no earlier report of the   *)
(* same subject: its flag would have kept the rule from firing.            *)
LEMMA NoSecondReport ==
    ASSUME OnceInv, NEW e \in Entries, ProcessEvent(e)
    PROVE  ReportedOnce'
<1> DEFINE u == userContexts[e.userId]
           d == deviceContexts[e.deviceId]
<1>1. u \in UserContext /\ d \in DeviceContext
  BY EntryFields DEF OnceInv, TypeOK
<1>2. /\ log \in Seq(Entries) /\ Len(log) \in Nat
      /\ log' = Append(log, e)
      /\ log'[Len(log) + 1] = e
      /\ \A i \in 1 .. Len(log) : log'[i] = log[i]
  BY AppendProperties DEF OnceInv, TypeOK, ProcessEvent
<1>3. \A r \in results' : \/ r \in results
                          \/ /\ r = [rule |-> r.rule, event |-> Len(log) + 1]
                             /\ Fires(r.rule, u, d, e)
  BY DEF ProcessEvent
<1>4. \A r \in results : log'[r.event] = log[r.event]
  BY <1>2 DEF OnceInv, TypeOK
<1>5. ASSUME NEW a \in results, NEW b \in results', b \notin results,
             a.rule \in OnceRules, b.rule = a.rule,
             SameSubject(a.rule, log'[a.event], log'[b.event])
                 \/ SameSubject(a.rule, log'[b.event], log'[a.event])
      PROVE  FALSE
  <2>1. Flagged(a.rule, userContexts[log[a.event].userId],
                deviceContexts[log[a.event].deviceId])
    BY <1>5 DEF OnceInv, FlagInv, UserAt, DeviceAt
  <2>2. Fires(a.rule, u, d, e) /\ b.event = Len(log) + 1
    BY <1>3, <1>5
  <2>3. SameSubject(a.rule, log[a.event], e) \/ SameSubject(a.rule, e, log[a.event])
    BY <1>2, <1>4, <1>5, <2>2
  <2>4. Flagged(a.rule, u, d)
    BY <1>5, <2>1, <2>3 DEF SameSubject, DeviceRules, Flagged
  <2> QED
    BY <1>1, <1>5, <2>2, <2>4, FlagBlocks
<1> SUFFICES ASSUME NEW a \in results', NEW b \in results',
                    a.rule \in OnceRules, b.rule = a.rule,
                    SameSubject(a.rule, log'[a.event], log'[b.event])
             PROVE  a = b
  BY DEF ReportedOnce, SameSubject
<1>6. CASE a \in results /\ b \in results
  <2>1. SameSubject(a.rule, log[a.event], log[b.event])
    BY <1>4, <1>6
  <2> QED
    BY <1>6, <2>1 DEF OnceInv, ReportedOnce
<1>7. CASE a \in results /\ b \notin results
  BY <1>5, <1>7
<1>8. CASE a \notin results /\ b \in results
  BY <1>5, <1>8
<1>9. CASE a \notin results /\ b \notin results
  BY <1>3, <1>9
<1> QED
  BY <1>6, <1>7, <1>8, <1>9

(* Rules 4, 12 and 14 report a user at most once in a whole analysis and   *)
(* rule 13 a device, for every log and every order of the timelines.       *)
THEOREM ReportsOnce == Spec => []ReportedOnce
<1>1. Init => OnceInv
  <2>1. Init => TypeOK
    BY InitTypeOK
  <2>2. Init => FlagInv /\ ReportedOnce
    BY DEF Init, FlagInv, ReportedOnce
  <2> QED
    BY <2>1, <2>2 DEF OnceInv
<1>2. OnceInv /\ [Next]_vars => OnceInv'
  <2> SUFFICES ASSUME OnceInv, [Next]_vars PROVE OnceInv'
    OBVIOUS
  <2>1. TypeOK'
    BY NextTypeOK DEF OnceInv
  <2>2. ASSUME NEW e \in Entries, ProcessEvent(e) PROVE FlagInv' /\ ReportedOnce'
    BY <2>2, FlagsKept, NoSecondReport DEF OnceInv
  <2>3. ASSUME UNCHANGED <<userContexts, deviceContexts, results, log>>
        PROVE  FlagInv' /\ ReportedOnce'
    BY <2>3 DEF OnceInv, FlagInv, ReportedOnce, UserAt, DeviceAt
  <2> QED
    BY <2>1, <2>2, <2>3 DEF OnceInv, Next, NextUser, vars
<1>3. OnceInv => ReportedOnce
  BY DEF OnceInv
<1> QED
  BY <1>1, <1>2, <1>3, PTL DEF Spec
-----------------------------------------------------------------------------
(***************************************************************************)
(* The eight rules that judge a window: rules 1, 2, 3, 6, 9, 12, 13 and    *)
(* 14.  The properties speak of positions of the log, the code of windows  *)
(* and flags.  The invariant that relates them says that every window is   *)
(* the image of the last positions the rule counts for its subject since   *)
(* its last report, that every flag stands for a report, and that the      *)
(* reports so far are the due ones.  First, the last positions of a set,   *)
(* and what a push does to them.                                           *)
(***************************************************************************)
(* p names the last k positions of S, oldest first; all of them if there   *)
(* are no more than k.                                                     *)
LastPositions(p, S, k) ==
    /\ Len(p) <= k
    /\ \A i \in 1 .. Len(p) : p[i] \in S
    /\ \A i, j \in 1 .. Len(p) : i < j => p[i] < p[j]
    /\ \A s \in S : \/ \E i \in 1 .. Len(p) : p[i] = s
                    \/ Len(p) = k /\ \A i \in 1 .. Len(p) : s < p[i]

(* Nothing has no last positions. *)
LEMMA NoPositions ==
    ASSUME NEW k \in Nat
    PROVE  << >> \in Seq(Nat) /\ LastPositions(<< >>, {}, k)
BY DEF LastPositions

(* The elements of a set above one of its last positions are the last      *)
(* positions that follow.                                                  *)
LEMMA PositionsAbove ==
    ASSUME NEW k \in Nat \ {0}, NEW S \in SUBSET Nat, IsFiniteSet(S),
           NEW p \in Seq(Nat), LastPositions(p, S, k)
    PROVE  /\ LastOf(S, k) = {p[i] : i \in 1 .. Len(p)}
           /\ Cardinality(LastOf(S, k)) = Len(p)
<1>1. Len(p) \in Nat /\ Len(p) <= k /\ \A i \in 1 .. Len(p) : p[i] \in S /\ p[i] \in Nat
  BY DEF LastPositions
<1>2. \A i, j \in 1 .. Len(p) : (p[i] = p[j] => i = j) /\ (p[i] < p[j] => i < j)
  <2>1. \A i, j \in 1 .. Len(p) : i < j \/ i = j \/ j < i
    BY <1>1
  <2> QED
    BY <1>1, <2>1 DEF LastPositions
<1>3. ASSUME NEW m \in 0 .. Len(p)
      PROVE  /\ IsFiniteSet({p[i] : i \in m + 1 .. Len(p)})
             /\ Cardinality({p[i] : i \in m + 1 .. Len(p)}) = Len(p) - m
  <2> DEFINE A == m + 1 .. Len(p)
             B == {p[i] : i \in A}
             f == [i \in A |-> p[i]]
  <2>1. IsFiniteSet(A) /\ Cardinality(A) = Len(p) - m
    <3>1. m + 1 \in Int /\ Len(p) \in Int
      BY <1>1
    <3>2. IsFiniteSet(A) /\ Cardinality(A) = IF m + 1 > Len(p) THEN 0 ELSE Len(p) - (m + 1) + 1
      BY <3>1, FS_Interval
    <3> QED
      BY <1>1, <3>2
  <2>2. f \in Bijection(A, B)
    <3>1. \A i \in A : i \in 1 .. Len(p)
      BY <1>1
    <3>2. f \in [A -> B]
      OBVIOUS
    <3>3. \A i, j \in A : f[i] = f[j] => i = j
      BY <1>2, <3>1
    <3>4. \A b \in B : \E i \in A : f[i] = b
      OBVIOUS
    <3> HIDE DEF f, B, A
    <3> QED
      BY <3>2, <3>3, <3>4 DEF Bijection, Injection, Surjection, IsInjective
  <2> HIDE DEF f, B, A
  <2>3. IsFiniteSet(B) /\ Cardinality(B) = Cardinality(A)
    BY <2>1, <2>2, FS_Bijection DEF ExistsBijection
  <2> QED
    BY <2>1, <2>3 DEF B, A
<1>4. ASSUME NEW m \in 1 .. Len(p)
      PROVE  {j \in S : j > p[m]} = {p[i] : i \in m + 1 .. Len(p)}
  <2>1. ASSUME NEW j \in S, j > p[m]
        PROVE  \E i \in m + 1 .. Len(p) : p[i] = j
    <3>1. p[m] \in Nat /\ j \in Nat /\ ~(j < p[m])
      BY <1>1, <2>1
    <3>2. PICK i \in 1 .. Len(p) : p[i] = j
      BY <3>1 DEF LastPositions
    <3>3. m < i
      BY <1>2, <2>1, <3>1, <3>2
    <3> QED
      BY <1>1, <3>2, <3>3
  <2>2. ASSUME NEW i \in m + 1 .. Len(p)
        PROVE  p[i] \in S /\ p[i] > p[m]
    <3>1. i \in 1 .. Len(p) /\ m < i
      BY <1>1
    <3>2. p[m] < p[i]
      BY <3>1 DEF LastPositions
    <3> QED
      BY <1>1, <3>1, <3>2
  <2> QED
    BY <2>1, <2>2
<1>5. ASSUME NEW m \in 1 .. Len(p)
      PROVE  p[m] \in LastOf(S, k)
  <2> DEFINE A == {j \in S : j > p[m]}
             B == {p[i] : i \in m + 1 .. Len(p)}
  <2>1. A = B /\ Cardinality(B) = Len(p) - m
    <3>1. m \in 0 .. Len(p)
      BY <1>1
    <3> QED
      BY <3>1, <1>3, <1>4
  <2>2. Cardinality(A) < k
    <3> HIDE DEF A, B
    <3> QED
      BY <1>1, <2>1
  <2> QED
    BY <1>1, <2>2, Zenon DEF LastOf
<1>6. ASSUME NEW s \in LastOf(S, k)
      PROVE  \E i \in 1 .. Len(p) : p[i] = s
  <2> SUFFICES ASSUME ~\E i \in 1 .. Len(p) : p[i] = s PROVE FALSE
    OBVIOUS
  <2>1. s \in S /\ Cardinality({j \in S : j > s}) < k
    BY DEF LastOf
  <2>2. Len(p) = k /\ \A i \in 1 .. Len(p) : s < p[i]
    BY <2>1 DEF LastPositions
  <2> DEFINE B == {p[i] : i \in 0 + 1 .. Len(p)}
             A == {j \in S : j > s}
  <2>3. B \subseteq A
    BY <1>1, <2>1, <2>2
  <2>4. IsFiniteSet(A)
    BY FS_Subset
  <2>5. IsFiniteSet(B) /\ Cardinality(B) = Len(p)
    BY <1>1, <1>3
  <2> HIDE DEF A, B
  <2>6. Cardinality(B) <= Cardinality(A) /\ Cardinality(A) \in Nat
    BY <2>3, <2>4, FS_Subset, FS_CardinalityType
  <2> QED
    BY <1>1, <2>1, <2>2, <2>5, <2>6 DEF A
<1>7. LastOf(S, k) = {p[i] : i \in 1 .. Len(p)}
  BY <1>5, <1>6
<1>8. Cardinality({p[i] : i \in 1 .. Len(p)}) = Len(p)
  <2> DEFINE B(m) == {p[i] : i \in m .. Len(p)}
  <2>1. Cardinality(B(0 + 1)) = Len(p) - 0
    <3>1. 0 \in 0 .. Len(p)
      BY <1>1
    <3> QED
      BY <3>1, <1>3
  <2>2. 0 + 1 = 1 /\ Len(p) - 0 = Len(p)
    BY <1>1
  <2> HIDE DEF B
  <2>3. Cardinality(B(1)) = Len(p)
    BY <2>1, <2>2
  <2> QED
    BY <2>3 DEF B
<1> QED
  BY <1>7, <1>8

(* A position that comes after all others pushes the oldest one out of     *)
(* the last k.                                                             *)
LEMMA PositionPushed ==
    ASSUME NEW k \in Nat \ {0}, NEW S \in SUBSET Nat, NEW p \in Seq(Nat),
           LastPositions(p, S, k), NEW n \in Nat, \A s \in S : s < n
    PROVE  Pushed(k, p, n) \in Seq(Nat) /\ LastPositions(Pushed(k, p, n), S \cup {n}, k)
<1> DEFINE q == Pushed(k, p, n)
<1>1. Len(p) \in Nat /\ Len(p) <= k /\ \A i \in 1 .. Len(p) : p[i] \in S /\ p[i] < n /\ p[i] \in Nat
  BY DEF LastPositions
<1>2. \A i, j \in 1 .. Len(p) : i < j => p[i] < p[j]
  BY DEF LastPositions
<1>3. CASE Len(p) < k
  <2>1. /\ q \in Seq(Nat) /\ Len(q) = Len(p) + 1 /\ q[Len(p) + 1] = n
        /\ \A i \in 1 .. Len(p) : q[i] = p[i]
    BY <1>3, AppendProperties DEF Pushed
  <2> HIDE DEF q
  <2>2. \A i \in 1 .. Len(q) : i = Len(p) + 1 \/ i \in 1 .. Len(p)
    BY <1>1, <2>1
  <2>3. \A i \in 1 .. Len(q) : q[i] \in S \cup {n}
    BY <1>1, <2>1, <2>2
  <2>4. \A i, j \in 1 .. Len(q) : i < j => q[i] < q[j]
    <3> SUFFICES ASSUME NEW i \in 1 .. Len(q), NEW j \in 1 .. Len(q), i < j PROVE q[i] < q[j]
      OBVIOUS
    <3>1. i \in 1 .. Len(p)
      BY <1>1, <2>1
    <3>2. CASE j = Len(p) + 1
      BY <1>1, <2>1, <3>1, <3>2
    <3>3. CASE j \in 1 .. Len(p)
      BY <1>2, <2>1, <3>1, <3>3
    <3> QED
      BY <2>2, <3>2, <3>3
  <2>5. ASSUME NEW s \in S \cup {n}
        PROVE  \E i \in 1 .. Len(q) : q[i] = s
    <3>1. CASE s = n
      BY <1>1, <2>1, <3>1
    <3>2. CASE s \in S
      <4>1. PICK i \in 1 .. Len(p) : p[i] = s
        BY <1>1, <1>3, <3>2 DEF LastPositions
      <4>2. i \in 1 .. Len(q) /\ q[i] = s
        BY <1>1, <2>1, <4>1
      <4> QED
        BY <4>2
    <3> QED
      BY <3>1, <3>2
  <2>6. Len(q) <= k
    BY <1>1, <1>3, <2>1
  <2>7. LastPositions(q, S \cup {n}, k)
    BY <2>3, <2>4, <2>5, <2>6 DEF LastPositions
  <2> QED
    BY <2>1, <2>7 DEF q
<1>4. CASE ~(Len(p) < k)
  <2>1. Len(p) = k /\ p # << >>
    BY <1>1, <1>4
  <2> DEFINE t == Tail(p)
  <2>2. t \in Seq(Nat) /\ Len(t) = k - 1 /\ \A i \in 1 .. Len(t) : t[i] = p[i + 1]
    BY <2>1, HeadTailProperties
  <2>3. q = Append(t, n)
    BY <1>4 DEF Pushed
  <2> HIDE DEF t, q
  <2>4. /\ q \in Seq(Nat) /\ Len(q) = k /\ q[k] = n
        /\ \A i \in 1 .. k - 1 : q[i] = p[i + 1] /\ i + 1 \in 1 .. Len(p)
    <3>1. /\ Append(t, n) \in Seq(Nat) /\ Len(Append(t, n)) = Len(t) + 1
          /\ \A i \in 1 .. Len(t) : Append(t, n)[i] = t[i]
          /\ Append(t, n)[Len(t) + 1] = n
      BY <2>2, AppendProperties
    <3>2. Len(t) + 1 = k /\ \A i \in 1 .. k - 1 : i \in 1 .. Len(t) /\ i + 1 \in 1 .. Len(p)
      BY <2>1, <2>2
    <3> QED
      BY <2>2, <2>3, <3>1, <3>2
  <2>5. \A i \in 1 .. Len(q) : i = k \/ i \in 1 .. k - 1
    BY <2>4
  <2>6. \A i \in 1 .. Len(q) : q[i] \in S \cup {n}
    BY <1>1, <2>4, <2>5
  <2>7. \A i, j \in 1 .. Len(q) : i < j => q[i] < q[j]
    <3> SUFFICES ASSUME NEW i \in 1 .. Len(q), NEW j \in 1 .. Len(q), i < j PROVE q[i] < q[j]
      OBVIOUS
    <3>1. i \in 1 .. k - 1 /\ q[i] = p[i + 1] /\ i + 1 \in 1 .. Len(p)
      BY <2>4, <2>5
    <3>2. CASE j = k
      BY <1>1, <2>4, <3>1, <3>2
    <3>3. CASE j \in 1 .. k - 1
      <4>1. q[j] = p[j + 1] /\ j + 1 \in 1 .. Len(p) /\ i + 1 < j + 1
        BY <2>4, <3>3
      <4> QED
        BY <1>2, <3>1, <4>1
    <3> QED
      BY <2>5, <3>2, <3>3
  <2>8. ASSUME NEW s \in S \cup {n}
        PROVE  (\E i \in 1 .. Len(q) : q[i] = s) \/ \A i \in 1 .. Len(q) : s < q[i]
    <3>1. CASE s = n
      BY <2>4, <3>1
    <3>2. CASE s \in S /\ \A i \in 1 .. Len(p) : s < p[i]
      BY <1>1, <2>4, <2>5, <3>2
    <3>3. CASE s \in S /\ \E i \in 1 .. Len(p) : p[i] = s
      <4>1. PICK i \in 1 .. Len(p) : p[i] = s
        BY <3>3
      <4>2. CASE i = 1
        <5>1. \A j \in 1 .. k - 1 : p[1] < p[j + 1]
          <6>1. \A j \in 1 .. k - 1 : j + 1 \in 1 .. Len(p) /\ 1 < j + 1 /\ 1 \in 1 .. Len(p)
            BY <2>1
          <6> QED
            BY <1>2, <6>1
        <5> QED
          BY <1>1, <2>4, <2>5, <3>3, <4>1, <4>2, <5>1
      <4>3. CASE i # 1
        <5>1. i - 1 \in 1 .. k - 1 /\ (i - 1) + 1 = i /\ i - 1 \in 1 .. Len(q)
          BY <2>1, <2>4, <4>3
        <5>2. q[i - 1] = s
          BY <2>4, <4>1, <5>1
        <5> QED
          BY <5>1, <5>2
      <4> QED
        BY <4>2, <4>3
    <3> QED
      BY <3>1, <3>2, <3>3 DEF LastPositions
  <2>9. LastPositions(q, S \cup {n}, k)
    BY <2>4, <2>6, <2>7, <2>8 DEF LastPositions
  <2> QED
    BY <2>4, <2>9 DEF q
<1> QED
  BY <1>3, <1>4
-----------------------------------------------------------------------------
(* The window that the positions p stand for, if f gives the event at each *)
(* position.                                                               *)
Mapped(f, p) == [j \in 1 .. Len(p) |-> f[p[j]]]

(* Pushing the event of a position is pushing the position.                *)
LEMMA MappedPush ==
    ASSUME NEW f, NEW k \in Nat \ {0}, NEW p \in Seq(Nat), NEW n \in Nat,
           \A j \in 1 .. Len(p) : f[p[j]] \in Timed, f[n] \in Timed, Len(p) <= k
    PROVE  Pushed(k, Mapped(f, p), f[n]) = Mapped(f, Pushed(k, p, n))
<1> DEFINE w == Mapped(f, p)
<1>1. Len(p) \in Nat /\ w \in Seq(Timed) /\ Len(w) = Len(p) /\ \A j \in 1 .. Len(p) : w[j] = f[p[j]]
  BY DEF Mapped
<1> HIDE DEF w
<1>2. CASE Len(p) < k
  <2> DEFINE q == Append(p, n)
             v == Append(w, f[n])
  <2>1. q \in Seq(Nat) /\ Len(q) = Len(p) + 1 /\ q[Len(p) + 1] = n /\ \A j \in 1 .. Len(p) : q[j] = p[j]
    BY AppendProperties
  <2>2. v \in Seq(Timed) /\ Len(v) = Len(p) + 1 /\ v[Len(p) + 1] = f[n] /\ \A j \in 1 .. Len(p) : v[j] = w[j]
    BY <1>1, AppendProperties
  <2>3. Pushed(k, p, n) = q /\ Pushed(k, w, f[n]) = v
    BY <1>1, <1>2 DEF Pushed
  <2> HIDE DEF q, v
  <2>4. v = [j \in 1 .. Len(q) |-> v[j]]
    BY <2>1, <2>2
  <2>5. \A j \in 1 .. Len(q) : v[j] = f[q[j]]
    <3>1. \A j \in 1 .. Len(q) : j = Len(p) + 1 \/ j \in 1 .. Len(p)
      BY <1>1, <2>1
    <3> QED
      BY <1>1, <2>1, <2>2, <3>1
  <2>6. v = Mapped(f, q)
    BY <2>4, <2>5 DEF Mapped
  <2> QED
    BY <2>3, <2>6 DEF w
<1>3. CASE ~(Len(p) < k)
  <2> DEFINE t == Tail(p)
             x == Tail(w)
             q == Append(t, n)
             v == Append(x, f[n])
  <2>1. p # << >> /\ w # << >> /\ Len(p) - 1 \in Nat
    BY <1>1, <1>3
  <2>2. t \in Seq(Nat) /\ Len(t) = Len(p) - 1 /\ \A j \in 1 .. Len(t) : t[j] = p[j + 1]
    BY <2>1, HeadTailProperties
  <2>3. x \in Seq(Timed) /\ Len(x) = Len(p) - 1 /\ \A j \in 1 .. Len(x) : x[j] = w[j + 1]
    BY <1>1, <2>1, HeadTailProperties
  <2>4. Pushed(k, p, n) = q /\ Pushed(k, w, f[n]) = v
    BY <1>1, <1>3 DEF Pushed
  <2> HIDE DEF t, x
  <2>5. /\ q \in Seq(Nat) /\ Len(q) = Len(t) + 1 /\ q[Len(t) + 1] = n
        /\ \A j \in 1 .. Len(t) : q[j] = t[j]
    BY <2>2, AppendProperties
  <2>6. /\ v \in Seq(Timed) /\ Len(v) = Len(x) + 1 /\ v[Len(x) + 1] = f[n]
        /\ \A j \in 1 .. Len(x) : v[j] = x[j]
    BY <2>3, AppendProperties
  <2> HIDE DEF q, v
  <2>7. v = [j \in 1 .. Len(q) |-> v[j]]
    BY <2>2, <2>3, <2>5, <2>6
  <2>8. \A j \in 1 .. Len(q) : v[j] = f[q[j]]
    <3> SUFFICES ASSUME NEW j \in 1 .. Len(q) PROVE v[j] = f[q[j]]
      OBVIOUS
    <3>1. CASE j = Len(p)
      BY <1>1, <2>1, <2>2, <2>3, <2>5, <2>6, <3>1
    <3>2. CASE j # Len(p)
      <4>1. j \in 1 .. Len(t) /\ j \in 1 .. Len(x) /\ j + 1 \in 1 .. Len(p)
        BY <1>1, <2>1, <2>2, <2>3, <2>5, <3>2
      <4>2. v[j] = w[j + 1]
        BY <2>3, <2>6, <4>1
      <4>3. q[j] = p[j + 1]
        BY <2>2, <2>5, <4>1
      <4>4. w[j + 1] = f[p[j + 1]]
        BY <1>1, <4>1, Zenon
      <4> QED
        BY <4>2, <4>3, <4>4
    <3> QED
      BY <3>1, <3>2
  <2>9. v = Mapped(f, q)
    BY <2>7, <2>8 DEF Mapped
  <2> QED
    BY <2>4, <2>9 DEF w
<1> QED
  BY <1>2, <1>3

(* The number of different values of a window is a number. *)
LEMMA UniqueType ==
    ASSUME NEW V, NEW w \in Seq(V)
    PROVE  Unique(w) \in Nat
<1> DEFINE A == 1 .. Len(w)
           B == {w[i].value : i \in A}
           f == [i \in A |-> w[i].value]
<1>1. IsFiniteSet(A)
  BY FS_Interval
<1>2. f \in Surjection(A, B)
  BY DEF Surjection
<1>3. DOMAIN w = A
  OBVIOUS
<1> HIDE DEF f, B, A
<1>4. Cardinality(B) \in Nat
  BY <1>1, <1>2, FS_Surjection, FS_CardinalityType
<1> QED
  BY <1>3, <1>4 DEF Unique, B

(* The last k positions of S complete a window at n. *)
CompletesIn(f, S, n, k, seconds, different) ==
    LET last == LastOf(S, k)
    IN  /\ n \in last
        /\ Cardinality(last) = k
        /\ f[n].ts - f[Min(last)].ts <= seconds
        /\ Cardinality({f[i].value : i \in last}) >= different

(* What a rule asks of its window, it asks of the last positions that the  *)
(* window stands for.                                                      *)
LEMMA WindowAnswers ==
    ASSUME NEW f, NEW k \in Nat \ {0}, NEW S \in SUBSET Nat, IsFiniteSet(S),
           NEW p \in Seq(Nat), LastPositions(p, S, k),
           NEW n \in S, \A s \in S : s <= n, NEW seconds, NEW different
    PROVE  /\ Breached(k, Mapped(f, p), f[n].ts, seconds)
           /\ Unique(Mapped(f, p)) >= different
           <=> CompletesIn(f, S, n, k, seconds, different)
<1> DEFINE last == LastOf(S, k)
           w == Mapped(f, p)
<1>1. last = {p[i] : i \in 1 .. Len(p)} /\ Cardinality(last) = Len(p)
  BY PositionsAbove
<1>2. /\ Len(p) \in Nat /\ Len(p) <= k
      /\ \A i \in 1 .. Len(p) : p[i] \in S /\ p[i] \in Nat
      /\ \A i, j \in 1 .. Len(p) : i < j => p[i] < p[j]
  BY DEF LastPositions
<1>3. Len(w) = Len(p) /\ DOMAIN w = 1 .. Len(p) /\ \A j \in 1 .. Len(p) : w[j] = f[p[j]]
  BY DEF Mapped
<1> HIDE DEF last, w
<1>4. {w[i].value : i \in DOMAIN w} = {f[i].value : i \in last}
  <2>1. ASSUME NEW i \in DOMAIN w PROVE \E s \in last : f[s].value = w[i].value
    <3>1. p[i] \in last /\ w[i] = f[p[i]]
      BY <1>1, <1>3
    <3> QED
      BY <3>1
  <2>2. ASSUME NEW s \in last PROVE \E i \in DOMAIN w : f[s].value = w[i].value
    <3>1. PICK i \in 1 .. Len(p) : p[i] = s
      BY <1>1
    <3> QED
      BY <1>3, <3>1
  <2> QED
    BY <2>1, <2>2
<1>5. Unique(w) = Cardinality({f[i].value : i \in last})
  BY <1>4 DEF Unique
<1>6. n \in last
  <2>1. (\E i \in 1 .. Len(p) : p[i] = n) \/ (Len(p) = k /\ \A i \in 1 .. Len(p) : n < p[i])
    BY DEF LastPositions
  <2>2. CASE Len(p) = k /\ \A i \in 1 .. Len(p) : n < p[i]
    <3>1. 1 \in 1 .. Len(p) /\ n < p[1] /\ p[1] <= n /\ n \in Nat
      BY <1>2, <2>2
    <3> QED
      BY <1>2, <3>1
  <2> QED
    BY <1>1, <2>1, <2>2
<1>7. ASSUME Len(p) = k
      PROVE  w[1] = f[Min(last)]
  <2>1. 1 \in 1 .. Len(p)
    BY <1>7
  <2>2. p[1] \in last /\ \A x \in last : p[1] <= x
    <3>1. \A i \in 1 .. Len(p) : i = 1 \/ 1 < i
      BY <1>2
    <3>2. \A i \in 1 .. Len(p) : p[1] <= p[i]
      BY <1>2, <2>1, <3>1
    <3> QED
      BY <1>1, <2>1, <3>2
  <2>3. \A x \in last : x \in Nat
    BY <1>1, <1>2
  <2>4. Min(last) \in last /\ \A y \in last : Min(last) <= y
    BY <2>2 DEF Min
  <2>5. Min(last) = p[1]
    BY <2>2, <2>3, <2>4
  <2> QED
    BY <1>3, <2>1, <2>5
<1> QED
  BY <1>1, <1>3, <1>5, <1>6, <1>7 DEF Breached, IsFull, CompletesIn, last, w
-----------------------------------------------------------------------------
(* The rules that judge a window, and those of them that report a subject  *)
(* once and never empty it.                                                *)
OnceWindowRules == {"DATA_EXFILTRATION", "LATERAL_MOVEMENT", "COMPROMISED_DEVICE"}

WindowRules ==
    {"BRUTE_FORCE", "RAPID_SESSION", "DEVICE_HOPPING", "MULTI_COUNTRY_HOPPING",
     "RESOURCE_SCAN"} \cup OnceWindowRules

Capacity(rule) ==
    CASE rule = "BRUTE_FORCE"           -> BRUTE_FORCE_THRESHOLD
      [] rule = "RAPID_SESSION"         -> RAPID_SESSION_THRESHOLD
      [] rule = "DEVICE_HOPPING"        -> DEVICE_HOP_THRESHOLD
      [] rule = "MULTI_COUNTRY_HOPPING" -> CountryCapacity
      [] rule = "RESOURCE_SCAN"         -> RESOURCE_SCAN_THRESHOLD
      [] rule = "DATA_EXFILTRATION"     -> EXFILTRATION_THRESHOLD
      [] rule = "LATERAL_MOVEMENT"      -> LATERAL_MOVEMENT_THRESHOLD
      [] rule = "COMPROMISED_DEVICE"    -> COMPROMISED_DEVICE_THRESHOLD

Seconds(rule) ==
    CASE rule = "BRUTE_FORCE"           -> BRUTE_FORCE_WINDOW_SEC
      [] rule = "RAPID_SESSION"         -> RAPID_SESSION_WINDOW_SEC
      [] rule = "DEVICE_HOPPING"        -> DEVICE_HOP_WINDOW_SEC
      [] rule = "MULTI_COUNTRY_HOPPING" -> MULTI_COUNTRY_WINDOW_SEC
      [] rule = "RESOURCE_SCAN"         -> RESOURCE_SCAN_WINDOW_SEC
      [] rule = "DATA_EXFILTRATION"     -> EXFILTRATION_WINDOW_SEC
      [] rule = "LATERAL_MOVEMENT"      -> LATERAL_MOVEMENT_WINDOW_SEC
      [] rule = "COMPROMISED_DEVICE"    -> COMPROMISED_DEVICE_WINDOW_SEC

(* How many different values a rule asks for. *)
Different(rule) ==
    CASE rule \in {"BRUTE_FORCE", "RAPID_SESSION"} -> 0
      [] rule = "MULTI_COUNTRY_HOPPING"            -> MULTI_COUNTRY_THRESHOLD
      [] OTHER                                     -> Capacity(rule)

ValueOf(rule, e) ==
    CASE rule \in {"BRUTE_FORCE", "RAPID_SESSION"}         -> 0
      [] rule = "DEVICE_HOPPING"                           -> e.deviceId
      [] rule = "MULTI_COUNTRY_HOPPING"                    -> e.location
      [] rule \in {"RESOURCE_SCAN", "DATA_EXFILTRATION"}   -> e.resourceId
      [] rule = "LATERAL_MOVEMENT"                         -> e.appId
      [] rule = "COMPROMISED_DEVICE"                       -> e.userId

(* Whether e enters the window of the rule in the contexts of its user. *)
EntersWindow(rule, u, e) ==
    CASE rule = "BRUTE_FORCE"           -> Is(e, "FAILED_LOGIN")
      [] rule \in {"RAPID_SESSION", "DEVICE_HOPPING", "COMPROMISED_DEVICE"} -> Is(e, "LOGIN")
      [] rule = "MULTI_COUNTRY_HOPPING" -> EntersCountry(u, e)
      [] rule = "RESOURCE_SCAN"         -> e.resourceId # 0
      [] rule = "DATA_EXFILTRATION"     -> NightDownload(e)
      [] rule = "LATERAL_MOVEMENT"      -> TRUE

WindowOf(rule, u, d) ==
    CASE rule = "BRUTE_FORCE"           -> u.failedLoginWindow
      [] rule = "RAPID_SESSION"         -> u.sessionStartWindow
      [] rule = "DEVICE_HOPPING"        -> u.deviceHopWindow
      [] rule = "MULTI_COUNTRY_HOPPING" -> u.countryWindow
      [] rule = "RESOURCE_SCAN"         -> d.resourceWindow
      [] rule = "DATA_EXFILTRATION"     -> u.exfiltrationWindow
      [] rule = "LATERAL_MOVEMENT"      -> u.appWindow
      [] rule = "COMPROMISED_DEVICE"    -> d.userWindow

Noted(rule, u, d, e) ==
    Noting(EntersWindow(rule, u, e), Capacity(rule), WindowOf(rule, u, d), e, ValueOf(rule, e))

(* The capacity of every window is one of the thresholds.                  *)
LEMMA CapacityType ==
    ASSUME NEW rule \in WindowRules
    PROVE  Capacity(rule) \in Nat \ {0} /\ Capacity(rule) \in Thresholds
BY ThresholdAssumption DEF WindowRules, OnceWindowRules, Capacity, Thresholds

(* What an entry leaves in a window is a number or a device.               *)
LEMMA ValueType ==
    ASSUME NEW rule \in WindowRules, NEW e \in Entries
    PROVE  ValueOf(rule, e) \in Nat \cup Devices
<1>1. /\ e.deviceId \in Devices /\ e.appId \in Nat /\ e.resourceId \in Nat
      /\ e.location \in Nat /\ e.userId \in Nat
  BY EntryFields, EntriesAssumption DEF Users
<1> QED
  BY <1>1 DEF WindowRules, OnceWindowRules, ValueOf

(* What processEvent() does with the window of a rule, and what it asks    *)
(* of it, is the same for all eight rules.                                 *)
LEMMA WindowRuleSteps ==
    ASSUME NEW rule \in WindowRules, NEW u \in UserContext, NEW d \in DeviceContext,
           NEW e \in Entries
    PROVE  /\ WindowOf(rule, UserAfter(u, e), DeviceAfter(d, e)) =
                 IF rule \in OnceWindowRules THEN Noted(rule, u, d, e)
                 ELSE ClearedIf(Fires(rule, u, d, e), Noted(rule, u, d, e))
           /\ Fires(rule, u, d, e) <=>
                 /\ EntersWindow(rule, u, e)
                 /\ rule \in OnceWindowRules => ~Flagged(rule, u, d)
                 /\ Breached(Capacity(rule), Noted(rule, u, d, e), e.timestamp, Seconds(rule))
                 /\ Unique(Noted(rule, u, d, e)) >= Different(rule)
<1> DEFINE w == Noted(rule, u, d, e)
<1>1. Unique(w) >= 0
  <2>1. WindowOf(rule, u, d) \in WindowUpTo(Capacity(rule))
    BY DEF WindowRules, OnceWindowRules, WindowOf, Capacity, UserContext, DeviceContext
  <2>2. w \in WindowUpTo(Capacity(rule))
    BY <2>1, CapacityType, ValueType, NotingType DEF Noted
  <2>3. Unique(w) \in Nat
    BY <2>2, UniqueType DEF WindowUpTo
  <2> QED
    BY <2>3
<1>2. CASE rule = "BRUTE_FORCE"
  <2>1. w = Failures(u, e)
    BY <1>2 DEF Noted, EntersWindow, Capacity, WindowOf, ValueOf, Failures
  <2>2. Fires(rule, u, d, e) <=> BruteForce(u, e)
    BY <1>2 DEF Fires
  <2>3. WindowOf(rule, UserAfter(u, e), DeviceAfter(d, e)) = ClearedIf(BruteForce(u, e), Failures(u, e))
    BY <1>2 DEF WindowOf, UserAfter
  <2> QED
    BY <1>1, <1>2, <2>1, <2>2, <2>3
    DEF OnceWindowRules, EntersWindow, Capacity, Seconds, Different, BruteForce, ClearedIf
<1>3. CASE rule = "RAPID_SESSION"
  <2>1. w = Logins(u, e)
    BY <1>3 DEF Noted, EntersWindow, Capacity, WindowOf, ValueOf, Logins
  <2>2. Fires(rule, u, d, e) <=> RapidSession(u, e)
    BY <1>3 DEF Fires
  <2>3. WindowOf(rule, UserAfter(u, e), DeviceAfter(d, e)) = ClearedIf(RapidSession(u, e), Logins(u, e))
    BY <1>3 DEF WindowOf, UserAfter
  <2> QED
    BY <1>1, <1>3, <2>1, <2>2, <2>3
    DEF OnceWindowRules, EntersWindow, Capacity, Seconds, Different, RapidSession, ClearedIf
<1>4. CASE rule = "DEVICE_HOPPING"
  <2>1. w = LoginDevices(u, e)
    BY <1>4 DEF Noted, EntersWindow, Capacity, WindowOf, ValueOf, LoginDevices
  <2>2. Fires(rule, u, d, e) <=> DeviceHopping(u, e)
    BY <1>4 DEF Fires
  <2>3. WindowOf(rule, UserAfter(u, e), DeviceAfter(d, e)) = ClearedIf(DeviceHopping(u, e), LoginDevices(u, e))
    BY <1>4 DEF WindowOf, UserAfter
  <2> QED
    BY <1>1, <1>4, <2>1, <2>2, <2>3
    DEF OnceWindowRules, EntersWindow, Capacity, Seconds, Different, DeviceHopping, ClearedIf
<1>5. CASE rule = "MULTI_COUNTRY_HOPPING"
  <2>1. w = Countries(u, e)
    BY <1>5 DEF Noted, EntersWindow, Capacity, WindowOf, ValueOf, Countries
  <2>2. Fires(rule, u, d, e) <=> MultiCountryHopping(u, e)
    BY <1>5 DEF Fires
  <2>3. WindowOf(rule, UserAfter(u, e), DeviceAfter(d, e)) = ClearedIf(MultiCountryHopping(u, e), Countries(u, e))
    BY <1>5 DEF WindowOf, UserAfter
  <2> QED
    BY <1>1, <1>5, <2>1, <2>2, <2>3
    DEF OnceWindowRules, EntersWindow, Capacity, Seconds, Different, MultiCountryHopping, ClearedIf
<1>6. CASE rule = "RESOURCE_SCAN"
  <2>1. w = Resources(d, e)
    BY <1>6 DEF Noted, EntersWindow, Capacity, WindowOf, ValueOf, Resources
  <2>2. Fires(rule, u, d, e) <=> ResourceScan(d, e)
    BY <1>6 DEF Fires
  <2>3. WindowOf(rule, UserAfter(u, e), DeviceAfter(d, e)) = ClearedIf(ResourceScan(d, e), Resources(d, e))
    BY <1>6 DEF WindowOf, DeviceAfter
  <2> QED
    BY <1>1, <1>6, <2>1, <2>2, <2>3
    DEF OnceWindowRules, EntersWindow, Capacity, Seconds, Different, ResourceScan, ClearedIf
<1>7. CASE rule = "DATA_EXFILTRATION"
  <2>1. w = Downloads(u, e)
    BY <1>7 DEF Noted, EntersWindow, Capacity, WindowOf, ValueOf, Downloads
  <2>2. Fires(rule, u, d, e) <=> DataExfiltration(u, e)
    BY <1>7 DEF Fires
  <2>3. WindowOf(rule, UserAfter(u, e), DeviceAfter(d, e)) = Downloads(u, e)
    BY <1>7 DEF WindowOf, UserAfter
  <2> QED
    BY <1>1, <1>7, <2>1, <2>2, <2>3
    DEF OnceWindowRules, EntersWindow, Capacity, Seconds, Different, DataExfiltration, Flagged
<1>8. CASE rule = "LATERAL_MOVEMENT"
  <2>1. w = Apps(u, e)
    BY <1>8 DEF Noted, EntersWindow, Capacity, WindowOf, ValueOf, Apps
  <2>2. Fires(rule, u, d, e) <=> LateralMovement(u, e)
    BY <1>8 DEF Fires
  <2>3. WindowOf(rule, UserAfter(u, e), DeviceAfter(d, e)) = Apps(u, e)
    BY <1>8 DEF WindowOf, UserAfter
  <2> QED
    BY <1>1, <1>8, <2>1, <2>2, <2>3
    DEF OnceWindowRules, EntersWindow, Capacity, Seconds, Different, LateralMovement, Flagged
<1>9. CASE rule = "COMPROMISED_DEVICE"
  <2>1. w = DeviceUsers(d, e)
    BY <1>9 DEF Noted, EntersWindow, Capacity, WindowOf, ValueOf, DeviceUsers
  <2>2. Fires(rule, u, d, e) <=> CompromisedDevice(d, e)
    BY <1>9 DEF Fires
  <2>3. WindowOf(rule, UserAfter(u, e), DeviceAfter(d, e)) = DeviceUsers(d, e)
    BY <1>9 DEF WindowOf, DeviceAfter
  <2> QED
    BY <1>1, <1>9, <2>1, <2>2, <2>3
    DEF OnceWindowRules, EntersWindow, Capacity, Seconds, Different, CompromisedDevice, Flagged
<1> QED
  BY <1>2, <1>3, <1>4, <1>5, <1>6, <1>7, <1>8, <1>9 DEF WindowRules, OnceWindowRules
-----------------------------------------------------------------------------
(* Position i of the log l is in another country than the position of the  *)
(* same user before it, if there is one.                                   *)
EntersAt(l, i) ==
    /\ l[i].location # 0
    /\ \A j \in 1 .. i - 1 :
          /\ l[j].userId = l[i].userId
          /\ \A k \in j + 1 .. i - 1 : l[k].userId # l[i].userId
          => l[j].location # l[i].location

(* Whether a rule counts position i of the log l. *)
CountedAt(rule, l, i) ==
    CASE rule = "BRUTE_FORCE"           -> Is(l[i], "FAILED_LOGIN")
      [] rule \in {"RAPID_SESSION", "DEVICE_HOPPING", "COMPROMISED_DEVICE"} -> Is(l[i], "LOGIN")
      [] rule = "MULTI_COUNTRY_HOPPING" -> EntersAt(l, i)
      [] rule = "RESOURCE_SCAN"         -> l[i].resourceId # 0
      [] rule = "DATA_EXFILTRATION"     -> NightDownload(l[i])
      [] rule = "LATERAL_MOVEMENT"      -> TRUE

RaisedIn(R, rule, r) == [rule |-> rule, event |-> r] \in R

(* The positions up to n that a rule judges together for the subject of e: *)
(* those after its last report up to m, or all if it reports only once.    *)
PositionsOf(rule, l, R, e, m, n) ==
    {i \in 1 .. n :
        /\ SameSubject(rule, l[i], e)
        /\ CountedAt(rule, l, i)
        /\ \/ rule \in OnceWindowRules
           \/ \A r \in 1 .. m : RaisedIn(R, rule, r) /\ SameSubject(rule, l[r], e) => r < i}

(* The events that a rule's window holds for positions of the log l. *)
EventOf(rule, l) ==
    [i \in 1 .. Len(l) |-> [ts |-> l[i].timestamp, value |-> ValueOf(rule, l[i])]]

(* The positions up to n complete a window of the rule at n. *)
CompletesAt(rule, l, R, n) ==
    CompletesIn(EventOf(rule, l), PositionsOf(rule, l, R, l[n], n - 1, n), n,
                Capacity(rule), Seconds(rule), Different(rule))

(* One event e more, and whatever it raises. *)
Grows(l, R, m, Q, e) ==
    /\ l \in Seq(Entries) /\ m \in Seq(Entries) /\ e \in Entries
    /\ Len(m) = Len(l) + 1 /\ m[Len(m)] = e
    /\ \A i \in 1 .. Len(l) : m[i] = l[i]
    /\ \A rule \in Rules : \A r \in 1 .. Len(l) : RaisedIn(Q, rule, r) <=> RaisedIn(R, rule, r)

(* The window rules are rules, and those that report once are among        *)
(* OnceRules.                                                              *)
LEMMA RulesAreRules == WindowRules \subseteq Rules /\ OnceWindowRules \subseteq OnceRules
BY DEF WindowRules, OnceWindowRules, Rules, OnceRules, LongSessionRules

(* Whether a completed window is one depends on the events of its          *)
(* positions only.                                                         *)
LEMMA CompletesAgree ==
    ASSUME NEW f, NEW g, NEW S \in SUBSET Nat, \A s \in S : f[s] = g[s],
           NEW n, NEW k, NEW seconds, NEW different
    PROVE  CompletesIn(f, S, n, k, seconds, different) <=> CompletesIn(g, S, n, k, seconds, different)
<1> DEFINE last == LastOf(S, k)
<1>1. \A i \in last : i \in S
  BY DEF LastOf
<1>2. {f[i].value : i \in last} = {g[i].value : i \in last}
  <2> HIDE DEF last
  <2>1. \A i \in last : f[i].value = g[i].value
    BY <1>1
  <2> QED
    BY <2>1
<1>3. ASSUME n \in last
      PROVE  f[n] = g[n] /\ f[Min(last)] = g[Min(last)]
  <2>1. last \in SUBSET Nat /\ last # {}
    BY <1>1, <1>3
  <2> HIDE DEF last
  <2>2. \E x \in last : \A y \in last : x <= y
    BY <2>1, LeastExists
  <2>3. Min(last) \in last
    BY <2>2 DEF Min
  <2> QED
    BY <1>1, <1>3, <2>3
<1> QED
  BY <1>2, <1>3 DEF CompletesIn

(* What a rule counts of the past is not changed by a new event. *)
LEMMA CountedStays ==
    ASSUME NEW l, NEW R, NEW m, NEW Q, NEW e, Grows(l, R, m, Q, e),
           NEW rule \in WindowRules, NEW i \in 1 .. Len(l)
    PROVE  CountedAt(rule, m, i) <=> CountedAt(rule, l, i)
<1>1. Len(l) \in Nat /\ \A j \in 1 .. i : m[j] = l[j]
  BY DEF Grows
<1>2. i \in 1 .. i /\ m[i] = l[i] /\ i \in Nat
  BY <1>1
<1>3. EntersAt(m, i) <=> EntersAt(l, i)
  <2>1. \A j \in 1 .. i - 1 : m[j] = l[j] /\ \A k \in j + 1 .. i - 1 : m[k] = l[k]
    <3>1. \A j \in 1 .. i - 1 : j \in 1 .. i /\ \A k \in j + 1 .. i - 1 : k \in 1 .. i
      BY <1>2
    <3> QED
      BY <1>1, <3>1
  <2> QED
    BY <1>2, <2>1 DEF EntersAt
<1> QED
  BY <1>2, <1>3 DEF CountedAt, WindowRules, OnceWindowRules

(* Nor are the positions that it judges together up to a position of the   *)
(* past,                                                                   *)
LEMMA PositionsStay ==
    ASSUME NEW l, NEW R, NEW m, NEW Q, NEW e, Grows(l, R, m, Q, e),
           NEW rule \in WindowRules, NEW x, NEW a \in 0 .. Len(l), NEW b \in 0 .. Len(l)
    PROVE  PositionsOf(rule, m, Q, x, a, b) = PositionsOf(rule, l, R, x, a, b)
<1>1. Len(l) \in Nat /\ rule \in Rules
  BY RulesAreRules DEF Grows
<1>2. \A i \in 1 .. b : i \in 1 .. Len(l) /\ m[i] = l[i]
  BY <1>1 DEF Grows
<1>3. \A r \in 1 .. a : m[r] = l[r] /\ (RaisedIn(Q, rule, r) <=> RaisedIn(R, rule, r))
  BY <1>1 DEF Grows
<1>4. \A i \in 1 .. b : CountedAt(rule, m, i) <=> CountedAt(rule, l, i)
  BY <1>2, CountedStays
<1> QED
  BY <1>2, <1>3, <1>4 DEF PositionsOf

(* The positions are finitely many positions of the log.                   *)
LEMMA PositionsType ==
    ASSUME NEW rule, NEW l, NEW R, NEW x, NEW a, NEW b \in Nat
    PROVE  /\ PositionsOf(rule, l, R, x, a, b) \in SUBSET (1 .. b)
           /\ PositionsOf(rule, l, R, x, a, b) \in SUBSET Nat
           /\ IsFiniteSet(PositionsOf(rule, l, R, x, a, b))
<1>1. PositionsOf(rule, l, R, x, a, b) \in SUBSET (1 .. b)
  BY DEF PositionsOf
<1>2. IsFiniteSet(1 .. b)
  BY FS_Interval
<1>3. IsFiniteSet(PositionsOf(rule, l, R, x, a, b))
  BY <1>1, <1>2, FS_Subset
<1> QED
  BY <1>1, <1>3

(* nor what it completed in the past.                                      *)
LEMMA CompletesStays ==
    ASSUME NEW l, NEW R, NEW m, NEW Q, NEW e, Grows(l, R, m, Q, e),
           NEW rule \in WindowRules, NEW i \in 1 .. Len(l)
    PROVE  CompletesAt(rule, m, Q, i) <=> CompletesAt(rule, l, R, i)
<1> DEFINE S == PositionsOf(rule, l, R, l[i], i - 1, i)
<1>1. Len(l) \in Nat /\ i - 1 \in 0 .. Len(l) /\ i \in 0 .. Len(l) /\ i \in Nat /\ m[i] = l[i]
  BY DEF Grows
<1>2. PositionsOf(rule, m, Q, m[i], i - 1, i) = S
  BY <1>1, PositionsStay
<1>3. S \in SUBSET (1 .. i) /\ S \in SUBSET Nat
  BY <1>1, PositionsType
<1> HIDE DEF S
<1>4. \A s \in S : EventOf(rule, m)[s] = EventOf(rule, l)[s]
  <2>1. \A s \in S : s \in 1 .. Len(l) /\ s \in 1 .. Len(m) /\ m[s] = l[s]
    <3>1. \A s \in 1 .. i : s \in 1 .. Len(l) /\ s \in 1 .. Len(m)
      BY <1>1 DEF Grows
    <3>2. \A s \in 1 .. Len(l) : m[s] = l[s]
      BY DEF Grows
    <3> QED
      BY <1>3, <3>1, <3>2
  <2> QED
    BY <2>1 DEF EventOf
<1> DEFINE f == EventOf(rule, l)
           g == EventOf(rule, m)
<1> HIDE DEF f, g
<1>5. CompletesIn(g, S, i, Capacity(rule), Seconds(rule), Different(rule))
        <=> CompletesIn(f, S, i, Capacity(rule), Seconds(rule), Different(rule))
  BY <1>3, <1>4, CompletesAgree DEF f, g
<1> QED
  BY <1>2, <1>5 DEF CompletesAt, S, f, g
-----------------------------------------------------------------------------
(* The window w is what a rule should see of the log l after the reports R *)
(* for the subject of x.                                                   *)
Shows(rule, w, l, R, x) ==
    \E p \in Seq(Nat) :
        /\ LastPositions(p, PositionsOf(rule, l, R, x, Len(l), Len(l)), Capacity(rule))
        /\ w = Mapped(EventOf(rule, l), p)

(* The rule's flag is set exactly if it has reported the subject of x. *)
FlagsReport(rule, u, d, l, R, x) ==
    Flagged(rule, u, d) <=>
        \E r \in 1 .. Len(l) : RaisedIn(R, rule, r) /\ SameSubject(rule, l[r], x)

(* Entries of one subject are judged together. *)
LEMMA SubjectPositions ==
    ASSUME NEW rule, NEW l, NEW R, NEW x, NEW y, NEW a, NEW b, SameSubject(rule, x, y)
    PROVE  PositionsOf(rule, l, R, x, a, b) = PositionsOf(rule, l, R, y, a, b)
BY DEF PositionsOf, SameSubject

(* The positions up to the new one are those before it, and the new one if *)
(* the rule counts it.                                                     *)
LEMMA PositionsWithNew ==
    ASSUME NEW l, NEW R, NEW m, NEW Q, NEW e, Grows(l, R, m, Q, e),
           NEW rule \in WindowRules
    PROVE  LET n == Len(m)
               S == PositionsOf(rule, l, R, e, Len(l), Len(l))
           IN  \A i : i \in PositionsOf(rule, m, Q, e, n - 1, n)
                        <=> i \in S \/ (i = n /\ CountedAt(rule, m, n))
<1> DEFINE n == Len(m)
           S == PositionsOf(rule, l, R, e, Len(l), Len(l))
           T == PositionsOf(rule, m, Q, e, n - 1, n)
<1>1. Len(l) \in Nat /\ n = Len(l) + 1 /\ n - 1 = Len(l) /\ m[n] = e /\ SameSubject(rule, m[n], e)
  BY DEF Grows, SameSubject
<1>2. S = PositionsOf(rule, m, Q, e, Len(l), Len(l))
  BY <1>1, PositionsStay
<1>3. \A i \in 1 .. n : i = n \/ i \in 1 .. Len(l)
  BY <1>1
<1>4. n \in 1 .. n /\ (\A i \in 1 .. Len(l) : i \in 1 .. n) /\ (\A r \in 1 .. Len(l) : r < n)
        /\ n \notin 1 .. Len(l)
  BY <1>1
<1>5. T = PositionsOf(rule, m, Q, e, Len(l), n)
  BY <1>1
<1> HIDE DEF n
<1>6. n \in T <=> CountedAt(rule, m, n)
  BY <1>1, <1>4, <1>5 DEF PositionsOf
<1>7. n \notin S
  BY <1>2, <1>4 DEF PositionsOf
<1>8. \A i \in 1 .. Len(l) : i \in T <=> i \in S
  BY <1>2, <1>4, <1>5 DEF PositionsOf
<1>9. S \subseteq 1 .. Len(l) /\ T \subseteq 1 .. n
  BY <1>5 DEF PositionsOf
<1> HIDE DEF S, T
<1>10. ASSUME NEW i
       PROVE  i \in T <=> i \in S \/ (i = n /\ CountedAt(rule, m, n))
  BY <1>3, <1>6, <1>7, <1>8, <1>9
<1> QED
  BY <1>10, Zenon DEF n, S, T

(* A report throws away all positions so far, unless the rule reports only *)
(* once.                                                                   *)
LEMMA PositionsAfterReport ==
    ASSUME NEW l, NEW R, NEW m, NEW Q, NEW e, Grows(l, R, m, Q, e),
           NEW rule \in WindowRules
    PROVE  LET n == Len(m)
           IN  PositionsOf(rule, m, Q, e, n, n) =
                  IF RaisedIn(Q, rule, n) /\ rule \notin OnceWindowRules THEN {}
                  ELSE PositionsOf(rule, m, Q, e, n - 1, n)
<1> DEFINE n == Len(m)
<1>1. n - 1 \in Nat /\ n \in Nat /\ m[n] = e /\ SameSubject(rule, m[n], e)
  BY DEF Grows, SameSubject
<1>2. n \in 1 .. n /\ (\A i \in 1 .. n : ~(n < i)) /\ (\A r \in 1 .. n : r = n \/ r \in 1 .. n - 1)
        /\ (\A r \in 1 .. n - 1 : r \in 1 .. n)
  BY <1>1
<1> HIDE DEF n
<1>3. CASE RaisedIn(Q, rule, n) /\ rule \notin OnceWindowRules
  BY <1>1, <1>2, <1>3 DEF PositionsOf, n
<1>4. CASE ~RaisedIn(Q, rule, n) \/ rule \in OnceWindowRules
  BY <1>2, <1>4 DEF PositionsOf, n
<1> QED
  BY <1>3, <1>4 DEF n

(* One event: the rule fires exactly if the new position completes its     *)
(* window and it has not reported the subject once for all, and its window *)
(* shows afterwards what it should.                                        *)
LEMMA WindowStep ==
    ASSUME NEW l, NEW R, NEW m, NEW Q, NEW e \in Entries, Grows(l, R, m, Q, e),
           NEW rule \in WindowRules, NEW u \in UserContext, NEW d \in DeviceContext,
           Shows(rule, WindowOf(rule, u, d), l, R, e),
           EntersWindow(rule, u, e) <=> CountedAt(rule, m, Len(m)),
           RaisedIn(Q, rule, Len(m)) <=> Fires(rule, u, d, e)
    PROVE  /\ Fires(rule, u, d, e) <=>
                 /\ CompletesAt(rule, m, Q, Len(m))
                 /\ rule \in OnceWindowRules => ~Flagged(rule, u, d)
           /\ Shows(rule, WindowOf(rule, UserAfter(u, e), DeviceAfter(d, e)), m, Q, e)
<1> DEFINE n == Len(m)
           k == Capacity(rule)
           f == EventOf(rule, m)
           S == PositionsOf(rule, l, R, e, Len(l), Len(l))
           T == PositionsOf(rule, m, Q, e, n - 1, n)
           w == Noted(rule, u, d, e)
           enters == EntersWindow(rule, u, e)
<1>1. k \in Nat \ {0} /\ Len(l) \in Nat /\ n \in Nat /\ n = Len(l) + 1 /\ m[n] = e
  BY CapacityType DEF Grows
<1>2. S \in SUBSET (1 .. Len(l)) /\ S \in SUBSET Nat
  BY <1>1, PositionsType
<1>3. /\ enters => T = S \cup {n}
      /\ ~enters => T = S
  <2>1. \A i : i \in T <=> i \in S \/ (i = n /\ enters)
    <3>1. \A i : i \in T <=> i \in S \/ (i = n /\ CountedAt(rule, m, n))
      BY PositionsWithNew, Zenon
    <3> HIDE DEF T, S
    <3> QED
      BY <3>1
  <2> HIDE DEF T, S, n, enters
  <2> QED
    BY <2>1
<1>4. T \in SUBSET Nat /\ IsFiniteSet(T) /\ T \in SUBSET (1 .. n)
  BY <1>1, PositionsType
<1>5. \A s \in S : s < n
  <2>1. \A s \in 1 .. Len(l) : s < n
    BY <1>1
  <2> HIDE DEF S, n
  <2> QED
    BY <1>2, <2>1
<1>6. PICK p \in Seq(Nat) : LastPositions(p, S, k) /\ WindowOf(rule, u, d) = Mapped(EventOf(rule, l), p)
  BY DEF Shows
<1>7. Mapped(EventOf(rule, l), p) = Mapped(f, p)
  <2>1. \A j \in 1 .. Len(p) : p[j] \in 1 .. Len(l)
    <3> HIDE DEF S
    <3> QED
      BY <1>2, <1>6 DEF LastPositions
  <2>2. \A i \in 1 .. Len(l) : EventOf(rule, l)[i] = f[i]
    <3>1. \A i \in 1 .. Len(l) : i \in 1 .. Len(m) /\ m[i] = l[i]
      BY <1>1 DEF Grows
    <3> QED
      BY <3>1 DEF EventOf
  <2> HIDE DEF f
  <2> QED
    BY <2>1, <2>2 DEF Mapped
<1>8. /\ \A i \in 1 .. n : f[i] \in Timed
      /\ f[n] = [ts |-> e.timestamp, value |-> ValueOf(rule, e)] /\ f[n].ts = e.timestamp
  <2>1. \A i \in 1 .. n : m[i] \in Entries
    BY DEF Grows
  <2>2. \A i \in 1 .. n : m[i].timestamp \in Nat /\ ValueOf(rule, m[i]) \in Nat \cup Devices
    BY <2>1, EntryFields, ValueType
  <2>3. n \in 1 .. n
    BY <1>1
  <2>4. \A i \in 1 .. n : f[i] = [ts |-> m[i].timestamp, value |-> ValueOf(rule, m[i])]
    BY DEF EventOf
  <2> HIDE DEF f, n
  <2>5. f[n] = [ts |-> m[n].timestamp, value |-> ValueOf(rule, m[n])]
    BY <2>3, <2>4, Zenon
  <2>6. ASSUME NEW i \in 1 .. n
        PROVE  f[i] \in Timed
    <3>1. f[i] = [ts |-> m[i].timestamp, value |-> ValueOf(rule, m[i])]
      BY <2>4
    <3>2. m[i].timestamp \in Nat /\ ValueOf(rule, m[i]) \in Nat \cup Devices
      BY <2>2
    <3> QED
      BY <3>1, <3>2 DEF Timed
  <2> QED
    BY <1>1, <2>5, <2>6
<1> DEFINE q == IF enters THEN Pushed(k, p, n) ELSE p
<1>9. q \in Seq(Nat) /\ LastPositions(q, T, k) /\ w = Mapped(f, q)
  <2>1. CASE enters
    <3>1. Pushed(k, p, n) \in Seq(Nat) /\ LastPositions(Pushed(k, p, n), S \cup {n}, k)
      <4> HIDE DEF S, n, k
      <4> QED
        BY <1>1, <1>2, <1>5, <1>6, PositionPushed
    <3>2. /\ Len(p) <= k /\ n \in 1 .. n
          /\ \A j \in 1 .. Len(p) : p[j] \in 1 .. n
      <4>1. \A s \in 1 .. Len(l) : s \in 1 .. n
        BY <1>1
      <4>2. n \in 1 .. n
        BY <1>1
      <4> HIDE DEF S, n
      <4> QED
        BY <1>2, <1>6, <4>1, <4>2 DEF LastPositions
    <3>3. Pushed(k, Mapped(f, p), f[n]) = Mapped(f, Pushed(k, p, n))
      <4>1. f[n] \in Timed /\ \A j \in 1 .. Len(p) : f[p[j]] \in Timed
        <5> HIDE DEF f, n
        <5> QED
          BY <1>8, <3>2
      <4> HIDE DEF f, n, k
      <4> QED
        BY <1>1, <3>2, <4>1, MappedPush, Zenon
    <3>4. w = Pushed(k, Mapped(f, p), f[n])
      BY <1>6, <1>7, <1>8, <2>1 DEF Noted, Noting
    <3> QED
      BY <1>3, <2>1, <3>1, <3>3, <3>4
  <2>2. CASE ~enters
    BY <1>3, <1>6, <1>7, <2>2 DEF Noted, Noting
  <2> QED
    BY <2>1, <2>2
<1> HIDE DEF q
<1>10. Fires(rule, u, d, e) <=>
          /\ CompletesAt(rule, m, Q, n)
          /\ rule \in OnceWindowRules => ~Flagged(rule, u, d)
  <2>1. CompletesAt(rule, m, Q, n) <=> CompletesIn(f, T, n, k, Seconds(rule), Different(rule))
    BY <1>1 DEF CompletesAt
  <2>2. CASE enters
    <3>1. n \in T /\ \A s \in T : s <= n
      <4>1. n \in T
        BY <1>3, <2>2
      <4>2. \A s \in 1 .. n : s <= n
        BY <1>1
      <4> HIDE DEF T, n
      <4> QED
        BY <1>4, <4>1, <4>2
    <3>2. Breached(k, w, e.timestamp, Seconds(rule)) /\ Unique(w) >= Different(rule)
            <=> CompletesIn(f, T, n, k, Seconds(rule), Different(rule))
      <4> HIDE DEF f, T, n, k, w
      <4> QED
        BY <1>1, <1>4, <1>8, <1>9, <3>1, WindowAnswers
    <3> QED
      BY <2>1, <2>2, <3>2, WindowRuleSteps
  <2>3. CASE ~enters
    <3>1. ~Fires(rule, u, d, e)
      BY <2>3, WindowRuleSteps
    <3>2. n \notin T
      <4> HIDE DEF S, T, n
      <4>1. n \in Nat /\ ~(n < n)
        BY <1>1
      <4> QED
        BY <1>3, <1>5, <2>3, <4>1
    <3>3. ~CompletesIn(f, T, n, k, Seconds(rule), Different(rule))
      BY <3>2 DEF CompletesIn, LastOf
    <3> QED
      BY <2>1, <3>1, <3>3
  <2> QED
    BY <2>2, <2>3
<1>11. Shows(rule, WindowOf(rule, UserAfter(u, e), DeviceAfter(d, e)), m, Q, e)
  <2> DEFINE W == WindowOf(rule, UserAfter(u, e), DeviceAfter(d, e))
  <2>1. W = IF rule \in OnceWindowRules THEN w ELSE ClearedIf(Fires(rule, u, d, e), w)
    BY WindowRuleSteps
  <2>2. PositionsOf(rule, m, Q, e, n, n) =
          IF RaisedIn(Q, rule, n) /\ rule \notin OnceWindowRules THEN {} ELSE T
    BY PositionsAfterReport
  <2>3. CASE Fires(rule, u, d, e) /\ rule \notin OnceWindowRules
    <3>1. W = << >> /\ PositionsOf(rule, m, Q, e, n, n) = {}
      BY <2>1, <2>2, <2>3 DEF ClearedIf, EmptyWindow
    <3>2. << >> \in Seq(Nat) /\ LastPositions(<< >>, {}, k)
      BY <1>1, NoPositions
    <3>3. Mapped(f, << >>) = << >>
      BY DEF Mapped
    <3>4. W = Mapped(f, << >>) /\ LastPositions(<< >>, PositionsOf(rule, m, Q, e, n, n), k)
      BY <3>1, <3>2, <3>3
    <3> SUFFICES Shows(rule, W, m, Q, e)
      OBVIOUS
    <3> HIDE DEF W
    <3> QED
      BY <3>2, <3>4, Zenon DEF Shows
  <2>4. CASE ~Fires(rule, u, d, e) \/ rule \in OnceWindowRules
    <3>1. W = w /\ PositionsOf(rule, m, Q, e, n, n) = T
      BY <2>1, <2>2, <2>4 DEF ClearedIf
    <3>2. W = Mapped(f, q) /\ LastPositions(q, PositionsOf(rule, m, Q, e, n, n), k)
      <4> HIDE DEF W, T, w
      <4> QED
        BY <1>9, <3>1
    <3> SUFFICES Shows(rule, W, m, Q, e)
      OBVIOUS
    <3> HIDE DEF W
    <3> QED
      BY <1>9, <3>2, Zenon DEF Shows
  <2> QED
    BY <2>3, <2>4
<1> QED
  BY <1>10, <1>11
-----------------------------------------------------------------------------
(* Position j is the last one of the user of x in the log l. *)
LastEntryAt(l, j, x) ==
    l[j].userId = x.userId /\ \A k \in j + 1 .. Len(l) : l[k].userId # x.userId

(* What the context u of the user of x tells of the log l. *)
Remembers(u, l, x) ==
    /\ ~u.hasActivity => \A i \in 1 .. Len(l) : l[i].userId # x.userId
    /\ u.hasActivity => \E j \in 1 .. Len(l) :
                           /\ LastEntryAt(l, j, x)
                           /\ u.lastLocation = l[j].location
                           /\ u.lastActivityTimestamp = l[j].timestamp

(* Each user's entries are sorted by time. *)
Sorted(l) ==
    \A i, j \in 1 .. Len(l) :
        i < j /\ l[i].userId = l[j].userId => l[i].timestamp <= l[j].timestamp

(* The rule is raised where it should be. *)
RaisedWhereDue(rule, l, R, n) ==
    RaisedIn(R, rule, n) <=>
        /\ CompletesAt(rule, l, R, n)
        /\ rule \in OnceWindowRules =>
              \A i \in 1 .. n - 1 : SameSubject(rule, l[i], l[n]) => ~CompletesAt(rule, l, R, i)

(* The country window follows the contexts. *)
LEMMA EntersAgree ==
    ASSUME NEW l, NEW R, NEW m, NEW Q, NEW e, Grows(l, R, m, Q, e),
           NEW u \in UserContext, Remembers(u, l, e), NEW rule \in WindowRules
    PROVE  EntersWindow(rule, u, e) <=> CountedAt(rule, m, Len(m))
<1> DEFINE n == Len(m)
<1>1. Len(l) \in Nat /\ n = Len(l) + 1 /\ n - 1 = Len(l) /\ m[n] = e
      /\ \A i \in 1 .. Len(l) : m[i] = l[i]
  BY DEF Grows
<1>2. EntersAt(m, n) <=>
        /\ e.location # 0
        /\ \A j \in 1 .. Len(l) : LastEntryAt(l, j, e) => l[j].location # e.location
  <2>1. \A j \in 1 .. Len(l) : \A k \in j + 1 .. Len(l) : k \in 1 .. Len(l)
    BY <1>1
  <2> HIDE DEF n
  <2> QED
    BY <1>1, <2>1 DEF EntersAt, LastEntryAt
<1>3. EntersCountry(u, e) <=>
        /\ e.location # 0
        /\ \A j \in 1 .. Len(l) : LastEntryAt(l, j, e) => l[j].location # e.location
  <2>1. CASE ~u.hasActivity
    BY <2>1 DEF EntersCountry, Remembers, LastEntryAt
  <2>2. CASE u.hasActivity
    <3>1. PICK j \in 1 .. Len(l) : LastEntryAt(l, j, e) /\ u.lastLocation = l[j].location
      BY <2>2 DEF Remembers
    <3>2. ASSUME NEW i \in 1 .. Len(l), LastEntryAt(l, i, e)
          PROVE  i = j
      <4>1. i < j => j \in i + 1 .. Len(l)
        BY <1>1
      <4>2. j < i => i \in j + 1 .. Len(l)
        BY <1>1
      <4>3. ~(i < j) /\ ~(j < i)
        BY <3>1, <3>2, <4>1, <4>2 DEF LastEntryAt
      <4> QED
        BY <1>1, <4>3
    <3> QED
      BY <2>2, <3>1, <3>2 DEF EntersCountry
  <2> QED
    BY <2>1, <2>2
<1> HIDE DEF n
<1>4. EntersCountry(u, e) <=> EntersAt(m, n)
  BY <1>2, <1>3
<1> QED
  BY <1>1, <1>4 DEF EntersWindow, CountedAt, WindowRules, OnceWindowRules, n

(* A new event of another subject leaves what a window shows. *)
LEMMA OthersShow ==
    ASSUME NEW l, NEW R, NEW m, NEW Q, NEW e, Grows(l, R, m, Q, e),
           NEW rule \in WindowRules, NEW x, ~SameSubject(rule, e, x), NEW w,
           Shows(rule, w, l, R, x)
    PROVE  Shows(rule, w, m, Q, x)
<1> DEFINE n == Len(m)
           S == PositionsOf(rule, l, R, x, Len(l), Len(l))
           T == PositionsOf(rule, m, Q, x, n, n)
<1>1. Len(l) \in Nat /\ n = Len(l) + 1 /\ m[n] = e
  BY DEF Grows
<1>2. S = PositionsOf(rule, m, Q, x, Len(l), Len(l))
  BY <1>1, PositionsStay
<1>3. /\ \A i \in 1 .. n : i = n \/ i \in 1 .. Len(l)
      /\ \A i \in 1 .. Len(l) : i \in 1 .. n
  BY <1>1
<1>4. T = S
  <2> HIDE DEF n
  <2>1. ASSUME NEW i PROVE i \in T <=> i \in S
    BY <1>1, <1>2, <1>3 DEF PositionsOf
  <2> HIDE DEF S, T
  <2> QED
    BY <2>1
<1>5. PICK p \in Seq(Nat) : LastPositions(p, S, Capacity(rule)) /\ w = Mapped(EventOf(rule, l), p)
  BY DEF Shows
<1>6. Mapped(EventOf(rule, l), p) = Mapped(EventOf(rule, m), p)
  <2>1. \A j \in 1 .. Len(p) : p[j] \in 1 .. Len(l)
    <3>1. S \in SUBSET (1 .. Len(l))
      BY <1>1, PositionsType
    <3> HIDE DEF S
    <3> QED
      BY <1>5, <3>1 DEF LastPositions
  <2>2. \A i \in 1 .. Len(l) : EventOf(rule, l)[i] = EventOf(rule, m)[i]
    <3>1. \A i \in 1 .. Len(l) : i \in 1 .. Len(m) /\ m[i] = l[i]
      BY <1>1 DEF Grows
    <3> QED
      BY <3>1 DEF EventOf
  <2> QED
    BY <2>1, <2>2 DEF Mapped
<1>7. LastPositions(p, T, Capacity(rule)) /\ w = Mapped(EventOf(rule, m), p)
  <2> HIDE DEF S, T
  <2> QED
    BY <1>4, <1>5, <1>6
<1> QED
  BY <1>7, Zenon DEF Shows

(* A window shows the same for all entries of one subject.                 *)
LEMMA SubjectShows ==
    ASSUME NEW rule, NEW x, NEW y, SameSubject(rule, x, y), NEW w, NEW l, NEW R,
           Shows(rule, w, l, R, x)
    PROVE  Shows(rule, w, l, R, y)
<1>1. PositionsOf(rule, l, R, x, Len(l), Len(l)) = PositionsOf(rule, l, R, y, Len(l), Len(l))
  BY SubjectPositions
<1> QED
  BY <1>1 DEF Shows

(* What a rule has completed before for a subject it has reported, if it   *)
(* reports once: the first time it completes its window it is raised.      *)
LEMMA FirstIsRaised ==
    ASSUME NEW l \in Seq(Entries), NEW R, NEW rule \in OnceWindowRules, NEW e,
           \A n \in 1 .. Len(l) : RaisedWhereDue(rule, l, R, n)
    PROVE  (\E r \in 1 .. Len(l) : RaisedIn(R, rule, r) /\ SameSubject(rule, l[r], e))
           <=> \E i \in 1 .. Len(l) : SameSubject(rule, l[i], e) /\ CompletesAt(rule, l, R, i)
<1> DEFINE T == {i \in 1 .. Len(l) : SameSubject(rule, l[i], e) /\ CompletesAt(rule, l, R, i)}
<1>1. ASSUME NEW i \in T
      PROVE  \E r \in 1 .. Len(l) : RaisedIn(R, rule, r) /\ SameSubject(rule, l[r], e)
  <2>1. T \in SUBSET Nat /\ T # {}
    OBVIOUS
  <2>2. PICK r \in T : \A j \in T : r <= j
    <3> HIDE DEF T
    <3> QED
      BY <2>1, LeastExists
  <2>3. ASSUME NEW j \in 1 .. r - 1, SameSubject(rule, l[j], l[r])
        PROVE  ~CompletesAt(rule, l, R, j)
    <3>1. j \in 1 .. Len(l) /\ ~(r <= j)
      OBVIOUS
    <3>2. SameSubject(rule, l[j], e)
      BY <2>3 DEF SameSubject
    <3> QED
      BY <2>2, <3>1, <3>2
  <2>4. RaisedWhereDue(rule, l, R, r) /\ r \in 1 .. Len(l) /\ SameSubject(rule, l[r], e)
        /\ CompletesAt(rule, l, R, r)
    OBVIOUS
  <2>5. RaisedIn(R, rule, r)
    BY <2>3, <2>4, Zenon DEF RaisedWhereDue
  <2> QED
    BY <2>4, <2>5
<1>2. ASSUME NEW r \in 1 .. Len(l), RaisedIn(R, rule, r)
      PROVE  CompletesAt(rule, l, R, r)
  BY <1>2 DEF RaisedWhereDue
<1> QED
  BY <1>1, <1>2
-----------------------------------------------------------------------------
(* The parts of the inductive invariant: the contexts U and D tell of the  *)
(* log l and the reports R what the rules go by, and the reports are the   *)
(* due ones.                                                               *)
AllRemember(U, l) == \A x \in Entries : Remembers(U[x.userId], l, x)

AllShow(U, D, l, R) ==
    \A rule \in WindowRules, x \in Entries :
        Shows(rule, WindowOf(rule, U[x.userId], D[x.deviceId]), l, R, x)

AllFlagsReport(U, D, l, R) ==
    \A rule \in OnceWindowRules, x \in Entries :
        FlagsReport(rule, U[x.userId], D[x.deviceId], l, R, x)

AllRaisedWhereDue(l, R) ==
    \A rule \in WindowRules, n \in 1 .. Len(l) : RaisedWhereDue(rule, l, R, n)

WindowInv ==
    /\ Sorted(log)
    /\ AllRemember(userContexts, log)
    /\ AllShow(userContexts, deviceContexts, log, results)
    /\ AllFlagsReport(userContexts, deviceContexts, log, results)
    /\ AllRaisedWhereDue(log, results)

(* The contexts, log and reports before and after one event. *)
OneEvent(U, D, l, R, V, B, m, Q, e) ==
    /\ e \in Entries
    /\ U \in [Users -> UserContext]
    /\ D \in [Devices -> DeviceContext]
    /\ Grows(l, R, m, Q, e)
    /\ V = [U EXCEPT ![e.userId] = UserAfter(U[e.userId], e)]
    /\ B = [D EXCEPT ![e.deviceId] = DeviceAfter(D[e.deviceId], e)]
    /\ U[e.userId].hasActivity => U[e.userId].lastActivityTimestamp <= e.timestamp
    /\ \A rule \in Rules : RaisedIn(Q, rule, Len(m)) <=> Fires(rule, U[e.userId], D[e.deviceId], e)

(* processEvent() is such a step: it appends the entry and records what    *)
(* fires.                                                                  *)
LEMMA EventSteps ==
    ASSUME TypeOK, NEW e \in Entries, ProcessEvent(e)
    PROVE  OneEvent(userContexts, deviceContexts, log, results,
                  userContexts', deviceContexts', log', results', e)
<1> DEFINE u == userContexts[e.userId]
           d == deviceContexts[e.deviceId]
<1>1. /\ log \in Seq(Entries) /\ log' \in Seq(Entries) /\ Len(log) \in Nat
      /\ Len(log') = Len(log) + 1 /\ log'[Len(log) + 1] = e
      /\ \A i \in 1 .. Len(log) : log'[i] = log[i]
  BY AppendProperties DEF TypeOK, ProcessEvent
<1>2. results' = results \cup
         {[rule |-> r, event |-> Len(log) + 1] : r \in {x \in Rules : Fires(x, u, d, e)}}
  BY DEF ProcessEvent
<1>3. \A r \in results : r.event \in 1 .. Len(log)
  BY DEF TypeOK
<1>4. Len(log) + 1 \notin 1 .. Len(log) /\ \A r \in 1 .. Len(log) : r # Len(log) + 1
  BY <1>1
<1> HIDE DEF u, d
<1>5. ASSUME NEW rule \in Rules, NEW r \in 1 .. Len(log)
      PROVE  RaisedIn(results', rule, r) <=> RaisedIn(results, rule, r)
  BY <1>2, <1>4 DEF RaisedIn
<1>6. ASSUME NEW rule \in Rules
      PROVE  RaisedIn(results', rule, Len(log')) <=> Fires(rule, u, d, e)
  <2>1. [rule |-> rule, event |-> Len(log) + 1] \notin results
    BY <1>3, <1>4
  <2>2. [rule |-> rule, event |-> Len(log) + 1] \in results' <=> Fires(rule, u, d, e)
    BY <1>2, <2>1
  <2> QED
    BY <1>1, <2>2 DEF RaisedIn
<1>7. Grows(log, results, log', results', e)
  BY <1>1, <1>5 DEF Grows
<1> QED
  BY <1>6, <1>7 DEF OneEvent, TypeOK, ProcessEvent, u, d

(* The log stays sorted for each user: runAll() reads a sorted timeline,   *)
(* and the context holds the time of its last entry.                       *)
LEMMA SortedStep ==
    ASSUME NEW U, NEW D, NEW l, NEW R, NEW V, NEW B, NEW m, NEW Q, NEW e,
           OneEvent(U, D, l, R, V, B, m, Q, e), Sorted(l), AllRemember(U, l)
    PROVE  Sorted(m)
<1> DEFINE u == U[e.userId]
<1>1. /\ Len(l) \in Nat /\ Len(m) = Len(l) + 1 /\ m[Len(m)] = e
      /\ \A i \in 1 .. Len(l) : m[i] = l[i] /\ l[i] \in Entries
      /\ e \in Entries
  BY DEF OneEvent, Grows
<1>2. \A i \in 1 .. Len(l) : l[i].timestamp \in Nat
  BY <1>1, EntryFields
<1>3. ASSUME NEW i \in 1 .. Len(l), l[i].userId = e.userId
      PROVE  l[i].timestamp <= e.timestamp
  <2>1. Remembers(u, l, e)
    BY <1>1 DEF AllRemember
  <2>2. u.hasActivity
    BY <1>3, <2>1 DEF Remembers
  <2>3. PICK j \in 1 .. Len(l) : LastEntryAt(l, j, e) /\ u.lastActivityTimestamp = l[j].timestamp
    BY <2>1, <2>2 DEF Remembers
  <2>4. l[j].timestamp <= e.timestamp
    BY <2>2, <2>3 DEF OneEvent
  <2>5. ~(j < i)
    <3>1. j < i => i \in j + 1 .. Len(l)
      BY <1>1
    <3> QED
      BY <1>3, <2>3, <3>1 DEF LastEntryAt
  <2>6. l[i].timestamp <= l[j].timestamp
    <3>1. i = j \/ i < j
      BY <2>5
    <3> QED
      BY <1>2, <1>3, <2>3, <3>1 DEF Sorted, LastEntryAt
  <2>7. e.timestamp \in Nat
    BY <1>1, EntryFields
  <2> QED
    BY <1>2, <2>4, <2>6, <2>7
<1> SUFFICES ASSUME NEW i \in 1 .. Len(m), NEW j \in 1 .. Len(m), i < j, m[i].userId = m[j].userId
             PROVE  m[i].timestamp <= m[j].timestamp
  BY DEF Sorted
<1>4. i \in 1 .. Len(l)
  BY <1>1
<1>5. CASE j \in 1 .. Len(l)
  BY <1>1, <1>4, <1>5 DEF Sorted
<1>6. CASE j = Len(m)
  BY <1>1, <1>3, <1>4, <1>6
<1> QED
  BY <1>1, <1>5, <1>6

(* The contexts go on telling of the last entry of their users.            *)
LEMMA RememberStep ==
    ASSUME NEW U, NEW D, NEW l, NEW R, NEW V, NEW B, NEW m, NEW Q, NEW e,
           OneEvent(U, D, l, R, V, B, m, Q, e), AllRemember(U, l)
    PROVE  AllRemember(V, m)
<1> SUFFICES ASSUME NEW x \in Entries PROVE Remembers(V[x.userId], m, x)
  BY DEF AllRemember
<1>1. /\ Len(l) \in Nat /\ Len(m) = Len(l) + 1 /\ m[Len(m)] = e
      /\ \A i \in 1 .. Len(l) : m[i] = l[i]
      /\ e \in Entries
  BY DEF OneEvent, Grows
<1>2. /\ Len(m) \in 1 .. Len(m) /\ Len(m) + 1 .. Len(m) = {}
      /\ \A i \in 1 .. Len(m) : i = Len(m) \/ i \in 1 .. Len(l)
      /\ \A i \in 1 .. Len(l) : i \in 1 .. Len(m)
      /\ \A j \in 1 .. Len(l) : \A k \in j + 1 .. Len(m) : k = Len(m) \/ k \in j + 1 .. Len(l)
      /\ \A j \in 1 .. Len(l) : \A k \in j + 1 .. Len(l) : k \in 1 .. Len(l)
  BY <1>1
<1>3. x.userId \in Users /\ e.userId \in Users
  BY <1>1, EntryFields
<1>4. CASE x.userId = e.userId
  <2>1. V[x.userId] = UserAfter(U[e.userId], e)
    BY <1>3, <1>4 DEF OneEvent
  <2>2. V[x.userId].hasActivity /\ V[x.userId].lastLocation = e.location
        /\ V[x.userId].lastActivityTimestamp = e.timestamp
    BY <2>1 DEF UserAfter
  <2>3. LastEntryAt(m, Len(m), x)
    BY <1>1, <1>2, <1>4 DEF LastEntryAt
  <2> QED
    BY <1>1, <1>2, <2>2, <2>3 DEF Remembers
<1>5. CASE x.userId # e.userId
  <2>1. V[x.userId] = U[x.userId]
    BY <1>3, <1>5 DEF OneEvent
  <2>2. Remembers(U[x.userId], l, x)
    BY DEF AllRemember
  <2>3. ~U[x.userId].hasActivity => \A i \in 1 .. Len(m) : m[i].userId # x.userId
    BY <1>1, <1>2, <1>5, <2>2 DEF Remembers
  <2>4. ASSUME U[x.userId].hasActivity
        PROVE  \E j \in 1 .. Len(m) : /\ LastEntryAt(m, j, x)
                                      /\ U[x.userId].lastLocation = m[j].location
                                      /\ U[x.userId].lastActivityTimestamp = m[j].timestamp
    <3>1. PICK j \in 1 .. Len(l) : /\ LastEntryAt(l, j, x)
                                   /\ U[x.userId].lastLocation = l[j].location
                                   /\ U[x.userId].lastActivityTimestamp = l[j].timestamp
      BY <2>2, <2>4 DEF Remembers
    <3>2. j \in 1 .. Len(m) /\ m[j] = l[j]
      BY <1>1, <1>2
    <3>3. LastEntryAt(m, j, x)
      BY <1>1, <1>2, <1>5, <3>1 DEF LastEntryAt
    <3> QED
      BY <3>1, <3>2, <3>3
  <2> QED
    BY <2>1, <2>3, <2>4 DEF Remembers
<1> QED
  BY <1>4, <1>5

(* The contexts in which a rule judges x: those after the event for its    *)
(* subject, those before it for the others.                                *)
LEMMA ContextsAfter ==
    ASSUME NEW U, NEW D, NEW l, NEW R, NEW V, NEW B, NEW m, NEW Q, NEW e,
           OneEvent(U, D, l, R, V, B, m, Q, e), NEW rule \in WindowRules, NEW x \in Entries
    PROVE  LET u == UserAfter(U[e.userId], e)
               d == DeviceAfter(D[e.deviceId], e)
           IN  /\ SameSubject(rule, e, x) =>
                     /\ WindowOf(rule, V[x.userId], B[x.deviceId]) = WindowOf(rule, u, d)
                     /\ WindowOf(rule, U[x.userId], D[x.deviceId]) =
                           WindowOf(rule, U[e.userId], D[e.deviceId])
                     /\ Flagged(rule, V[x.userId], B[x.deviceId]) <=> Flagged(rule, u, d)
                     /\ Flagged(rule, U[x.userId], D[x.deviceId]) <=>
                           Flagged(rule, U[e.userId], D[e.deviceId])
               /\ ~SameSubject(rule, e, x) =>
                     /\ WindowOf(rule, V[x.userId], B[x.deviceId]) =
                           WindowOf(rule, U[x.userId], D[x.deviceId])
                     /\ Flagged(rule, V[x.userId], B[x.deviceId]) <=>
                           Flagged(rule, U[x.userId], D[x.deviceId])
<1> DEFINE u == UserAfter(U[e.userId], e)
           d == DeviceAfter(D[e.deviceId], e)
<1>1. /\ x.userId \in Users /\ e.userId \in Users
      /\ x.deviceId \in Devices /\ e.deviceId \in Devices
  BY EntryFields DEF OneEvent
<1>2. V[x.userId] = IF x.userId = e.userId THEN u ELSE U[x.userId]
  BY <1>1 DEF OneEvent
<1>3. B[x.deviceId] = IF x.deviceId = e.deviceId THEN d ELSE D[x.deviceId]
  BY <1>1 DEF OneEvent
<1> HIDE DEF u, d
<1>4. CASE rule \in DeviceRules
  <2>1. rule \in {"RESOURCE_SCAN", "COMPROMISED_DEVICE"} /\
        (SameSubject(rule, e, x) <=> e.deviceId = x.deviceId)
    BY <1>4 DEF DeviceRules, SameSubject
  <2>2. \A a, b, c : WindowOf(rule, a, c) = WindowOf(rule, b, c)
                     /\ (Flagged(rule, a, c) <=> Flagged(rule, b, c))
    BY <2>1 DEF WindowOf, Flagged
  <2> QED
    BY <1>2, <1>3, <2>1, <2>2 DEF u, d
<1>5. CASE rule \notin DeviceRules
  <2>1. rule \in WindowRules \ {"RESOURCE_SCAN", "COMPROMISED_DEVICE"} /\
        (SameSubject(rule, e, x) <=> e.userId = x.userId)
    BY <1>5 DEF DeviceRules, SameSubject
  <2>2. \A a, b, c : WindowOf(rule, c, a) = WindowOf(rule, c, b)
                     /\ (Flagged(rule, c, a) <=> Flagged(rule, c, b))
    BY <2>1 DEF WindowOf, Flagged, WindowRules, OnceWindowRules
  <2> QED
    BY <1>2, <1>3, <2>1, <2>2 DEF u, d
<1> QED
  BY <1>4, <1>5
-----------------------------------------------------------------------------
(* Every window shows after the event what it should, and the rule is      *)
(* raised if and only if the event completes it and no flag is set.        *)
LEMMA ShowStep ==
    ASSUME NEW U, NEW D, NEW l, NEW R, NEW V, NEW B, NEW m, NEW Q, NEW e,
           OneEvent(U, D, l, R, V, B, m, Q, e), AllRemember(U, l), AllShow(U, D, l, R)
    PROVE  /\ AllShow(V, B, m, Q)
           /\ \A rule \in WindowRules :
                 RaisedIn(Q, rule, Len(m)) <=>
                     /\ CompletesAt(rule, m, Q, Len(m))
                     /\ rule \in OnceWindowRules => ~Flagged(rule, U[e.userId], D[e.deviceId])
<1> DEFINE u == U[e.userId]
           d == D[e.deviceId]
<1>1. e \in Entries /\ Grows(l, R, m, Q, e) /\ u \in UserContext /\ d \in DeviceContext
  BY EntryFields DEF OneEvent
<1>2. Remembers(u, l, e)
  BY <1>1 DEF AllRemember
<1>3. ASSUME NEW rule \in WindowRules
      PROVE  /\ Shows(rule, WindowOf(rule, UserAfter(u, e), DeviceAfter(d, e)), m, Q, e)
             /\ RaisedIn(Q, rule, Len(m)) <=>
                   /\ CompletesAt(rule, m, Q, Len(m))
                   /\ rule \in OnceWindowRules => ~Flagged(rule, u, d)
  <2>1. Shows(rule, WindowOf(rule, u, d), l, R, e)
    BY <1>1 DEF AllShow
  <2>2. RaisedIn(Q, rule, Len(m)) <=> Fires(rule, u, d, e)
    BY RulesAreRules DEF OneEvent
  <2> HIDE DEF u, d
  <2>3. EntersWindow(rule, u, e) <=> CountedAt(rule, m, Len(m))
    BY <1>1, <1>2, EntersAgree
  <2>4. /\ Fires(rule, u, d, e) <=>
             /\ CompletesAt(rule, m, Q, Len(m))
             /\ rule \in OnceWindowRules => ~Flagged(rule, u, d)
        /\ Shows(rule, WindowOf(rule, UserAfter(u, e), DeviceAfter(d, e)), m, Q, e)
    BY <1>1, <2>1, <2>2, <2>3, WindowStep
  <2> QED
    BY <2>2, <2>4
<1>4. ASSUME NEW rule \in WindowRules, NEW x \in Entries
      PROVE  Shows(rule, WindowOf(rule, V[x.userId], B[x.deviceId]), m, Q, x)
  <2>1. CASE SameSubject(rule, e, x)
    <3>1. WindowOf(rule, V[x.userId], B[x.deviceId])
            = WindowOf(rule, UserAfter(u, e), DeviceAfter(d, e))
      BY <2>1, ContextsAfter
    <3> HIDE DEF u, d
    <3> QED
      BY <1>3, <2>1, <3>1, SubjectShows
  <2>2. CASE ~SameSubject(rule, e, x)
    <3> DEFINE w == WindowOf(rule, U[x.userId], D[x.deviceId])
    <3>1. WindowOf(rule, V[x.userId], B[x.deviceId]) = w
      BY <2>2, ContextsAfter
    <3>2. Shows(rule, w, l, R, x)
      BY DEF AllShow
    <3> HIDE DEF w
    <3>3. Shows(rule, w, m, Q, x)
      BY <1>1, <2>2, <3>2, OthersShow
    <3> QED
      BY <3>1, <3>3
  <2> QED
    BY <2>1, <2>2
<1> QED
  BY <1>3, <1>4 DEF AllShow

(* The flags follow the reports. *)
LEMMA FlagsStep ==
    ASSUME NEW U, NEW D, NEW l, NEW R, NEW V, NEW B, NEW m, NEW Q, NEW e,
           OneEvent(U, D, l, R, V, B, m, Q, e), AllFlagsReport(U, D, l, R)
    PROVE  AllFlagsReport(V, B, m, Q)
<1> SUFFICES ASSUME NEW rule \in OnceWindowRules, NEW x \in Entries
             PROVE  FlagsReport(rule, V[x.userId], B[x.deviceId], m, Q, x)
  BY DEF AllFlagsReport
<1> DEFINE u == U[e.userId]
           d == D[e.deviceId]
           after == Flagged(rule, V[x.userId], B[x.deviceId])
           before == Flagged(rule, U[x.userId], D[x.deviceId])
<1>1. /\ rule \in Rules /\ rule \in WindowRules /\ rule \in OnceRules
  BY RulesAreRules DEF WindowRules
<1>2. /\ Len(l) \in Nat /\ Len(m) = Len(l) + 1 /\ m[Len(m)] = e
      /\ \A i \in 1 .. Len(l) : m[i] = l[i]
      /\ \A r \in 1 .. Len(l) : RaisedIn(Q, rule, r) <=> RaisedIn(R, rule, r)
      /\ RaisedIn(Q, rule, Len(m)) <=> Fires(rule, u, d, e)
      /\ e \in Entries
  BY <1>1 DEF OneEvent, Grows
<1>3. /\ \A i \in 1 .. Len(m) : i = Len(m) \/ i \in 1 .. Len(l)
      /\ \A i \in 1 .. Len(l) : i \in 1 .. Len(m)
      /\ Len(m) \in 1 .. Len(m)
  BY <1>2
<1>4. before <=> \E r \in 1 .. Len(l) : RaisedIn(R, rule, r) /\ SameSubject(rule, l[r], x)
  BY DEF AllFlagsReport, FlagsReport
<1>5. u \in UserContext /\ d \in DeviceContext
  BY <1>2, EntryFields DEF OneEvent
<1>6. after <=> before \/ (SameSubject(rule, e, x) /\ Fires(rule, u, d, e))
  <2>1. Flagged(rule, UserAfter(u, e), DeviceAfter(d, e)) <=> Flagged(rule, u, d) \/ Fires(rule, u, d, e)
    BY DEF OnceWindowRules, Flagged, UserAfter, DeviceAfter, Fires
  <2>2. CASE SameSubject(rule, e, x)
    <3>1. /\ after <=> Flagged(rule, UserAfter(u, e), DeviceAfter(d, e))
          /\ before <=> Flagged(rule, u, d)
      BY <1>1, <2>2, ContextsAfter
    <3> HIDE DEF u, d, after, before
    <3> QED
      BY <2>1, <2>2, <3>1
  <2>3. CASE ~SameSubject(rule, e, x)
    <3>1. after <=> before
      BY <1>1, <2>3, ContextsAfter
    <3> HIDE DEF u, d, after, before
    <3> QED
      BY <2>3, <3>1
  <2> QED
    BY <2>2, <2>3
<1>7. (\E r \in 1 .. Len(m) : RaisedIn(Q, rule, r) /\ SameSubject(rule, m[r], x))
        <=> \/ \E r \in 1 .. Len(l) : RaisedIn(R, rule, r) /\ SameSubject(rule, l[r], x)
            \/ Fires(rule, u, d, e) /\ SameSubject(rule, e, x)
  <2> HIDE DEF u, d
  <2> QED
    BY <1>2, <1>3
<1> HIDE DEF after, before
<1> QED
  BY <1>4, <1>6, <1>7 DEF FlagsReport, after

(* The rules are raised where they should be. *)
LEMMA DueStep ==
    ASSUME NEW U, NEW D, NEW l, NEW R, NEW V, NEW B, NEW m, NEW Q, NEW e,
           OneEvent(U, D, l, R, V, B, m, Q, e), AllRemember(U, l), AllShow(U, D, l, R),
           AllFlagsReport(U, D, l, R), AllRaisedWhereDue(l, R)
    PROVE  AllRaisedWhereDue(m, Q)
<1> SUFFICES ASSUME NEW rule \in WindowRules, NEW n \in 1 .. Len(m)
             PROVE  RaisedWhereDue(rule, m, Q, n)
  BY DEF AllRaisedWhereDue
<1>1. rule \in Rules /\ Grows(l, R, m, Q, e)
  BY RulesAreRules DEF OneEvent
<1>2. /\ Len(l) \in Nat /\ Len(m) = Len(l) + 1 /\ m[Len(m)] = e
      /\ \A i \in 1 .. Len(l) : m[i] = l[i]
      /\ \A r \in 1 .. Len(l) : RaisedIn(Q, rule, r) <=> RaisedIn(R, rule, r)
      /\ l \in Seq(Entries) /\ e \in Entries
  BY <1>1 DEF Grows, OneEvent
<1>3. \A i \in 1 .. Len(l) : CompletesAt(rule, m, Q, i) <=> CompletesAt(rule, l, R, i)
  BY <1>1, CompletesStays
<1>4. CASE n \in 1 .. Len(l)
  <2>1. RaisedWhereDue(rule, l, R, n)
    BY <1>4 DEF AllRaisedWhereDue
  <2>2. \A i \in 1 .. n - 1 : i \in 1 .. Len(l)
    BY <1>2, <1>4
  <2> QED
    BY <1>2, <1>3, <1>4, <2>1, <2>2 DEF RaisedWhereDue
<1>5. CASE n = Len(m)
  <2>1. RaisedIn(Q, rule, n) <=>
          /\ CompletesAt(rule, m, Q, n)
          /\ rule \in OnceWindowRules => ~Flagged(rule, U[e.userId], D[e.deviceId])
    BY <1>5, ShowStep
  <2>2. n - 1 = Len(l) /\ m[n] = e
    BY <1>2, <1>5
  <2>3. ASSUME rule \in OnceWindowRules
        PROVE  ~Flagged(rule, U[e.userId], D[e.deviceId]) <=>
                  \A i \in 1 .. n - 1 : SameSubject(rule, m[i], m[n]) => ~CompletesAt(rule, m, Q, i)
    <3>1. Flagged(rule, U[e.userId], D[e.deviceId]) <=>
             \E r \in 1 .. Len(l) : RaisedIn(R, rule, r) /\ SameSubject(rule, l[r], e)
      BY <1>2, <2>3 DEF AllFlagsReport, FlagsReport
    <3>2. (\E r \in 1 .. Len(l) : RaisedIn(R, rule, r) /\ SameSubject(rule, l[r], e))
            <=> \E i \in 1 .. Len(l) : SameSubject(rule, l[i], e) /\ CompletesAt(rule, l, R, i)
      BY <1>2, <2>3, FirstIsRaised DEF AllRaisedWhereDue
    <3> QED
      BY <1>2, <1>3, <2>2, <3>1, <3>2
  <2> QED
    BY <2>1, <2>3 DEF RaisedWhereDue
<1> QED
  BY <1>2, <1>4, <1>5

(* An empty log and empty windows agree.                                   *)
LEMMA InitWindowInv == Init => WindowInv
<1> SUFFICES ASSUME Init PROVE WindowInv
  OBVIOUS
<1>1. log = << >> /\ Len(log) = 0 /\ 1 .. Len(log) = {}
  BY DEF Init
<1>2. ASSUME NEW x \in Entries
      PROVE  userContexts[x.userId] = NewUserContext /\ deviceContexts[x.deviceId] = NewDeviceContext
  BY EntryFields DEF Init
<1>3. ASSUME NEW x \in Entries
      PROVE  Remembers(userContexts[x.userId], log, x)
  BY <1>1, <1>2 DEF Remembers, NewUserContext
<1>4. ASSUME NEW rule \in WindowRules, NEW x \in Entries
      PROVE  Shows(rule, WindowOf(rule, userContexts[x.userId], deviceContexts[x.deviceId]),
                   log, results, x)
  <2> DEFINE w == WindowOf(rule, userContexts[x.userId], deviceContexts[x.deviceId])
             f == EventOf(rule, log)
  <2>1. w = << >>
    BY <1>2 DEF WindowOf, WindowRules, OnceWindowRules, NewUserContext, NewDeviceContext, EmptyWindow
  <2>2. PositionsOf(rule, log, results, x, Len(log), Len(log)) = {}
    BY <1>1 DEF PositionsOf
  <2>3. << >> \in Seq(Nat) /\ LastPositions(<< >>, {}, Capacity(rule))
    BY CapacityType, NoPositions
  <2>4. Mapped(f, << >>) = << >>
    BY DEF Mapped
  <2> HIDE DEF w
  <2>5. w = Mapped(f, << >>)
        /\ LastPositions(<< >>, PositionsOf(rule, log, results, x, Len(log), Len(log)), Capacity(rule))
    BY <2>1, <2>2, <2>3, <2>4
  <2>6. Shows(rule, w, log, results, x)
    BY <2>3, <2>5, Zenon DEF Shows
  <2> QED
    BY <2>6 DEF w
<1>5. ASSUME NEW rule \in OnceWindowRules, NEW x \in Entries
      PROVE  FlagsReport(rule, userContexts[x.userId], deviceContexts[x.deviceId], log, results, x)
  BY <1>1, <1>2 DEF FlagsReport, Flagged, OnceWindowRules, NewUserContext, NewDeviceContext
<1> QED
  BY <1>1, <1>3, <1>4, <1>5
     DEF WindowInv, Sorted, AllRemember, AllShow, AllFlagsReport, AllRaisedWhereDue

(* Every step keeps windows, flags and reports in agreement with the log.  *)
LEMMA NextWindowInv == TypeOK /\ WindowInv /\ [Next]_vars => WindowInv'
<1> SUFFICES ASSUME TypeOK, WindowInv, [Next]_vars PROVE WindowInv'
  OBVIOUS
<1>1. ASSUME NEW e \in Entries, ProcessEvent(e) PROVE WindowInv'
  <2>1. OneEvent(userContexts, deviceContexts, log, results,
                 userContexts', deviceContexts', log', results', e)
    BY <1>1, EventSteps
  <2>2. Sorted(log')
    BY <2>1, SortedStep DEF WindowInv
  <2>3. AllRemember(userContexts', log')
    BY <2>1, RememberStep DEF WindowInv
  <2>4. AllShow(userContexts', deviceContexts', log', results')
    BY <2>1, ShowStep DEF WindowInv
  <2>5. AllFlagsReport(userContexts', deviceContexts', log', results')
    BY <2>1, FlagsStep DEF WindowInv
  <2>6. AllRaisedWhereDue(log', results')
    BY <2>1, DueStep DEF WindowInv
  <2> QED
    BY <2>2, <2>3, <2>4, <2>5, <2>6 DEF WindowInv
<1>2. CASE UNCHANGED <<userContexts, deviceContexts, results, log>>
  BY <1>2 DEF WindowInv
<1> QED
  BY <1>1, <1>2 DEF Next, NextUser, vars

(* The windows of the eight rules always show the last entries that count, *)
(* and the rules are raised exactly where those entries make them due.     *)
THEOREM WindowsKept == Spec => [](TypeOK /\ WindowInv)
<1>1. Init => TypeOK /\ WindowInv
  BY InitTypeOK, InitWindowInv
<1>2. TypeOK /\ WindowInv /\ [Next]_vars => TypeOK' /\ WindowInv'
  BY NextTypeOK, NextWindowInv
<1> QED
  BY <1>1, <1>2, PTL DEF Spec
-----------------------------------------------------------------------------
(* The latest of some positions up to n is one of them, or 0, and none of  *)
(* them is later.                                                          *)
LEMMA LatestIs ==
    ASSUME NEW n \in Nat, NEW S \in SUBSET (1 .. n)
    PROVE  /\ Latest(S) \in S \cup {0}
           /\ Latest(S) \in 0 .. n
           /\ \A i \in S : i <= Latest(S)
<1> DEFINE T == S \cup {0}
           U == {n - i : i \in T}
<1>1. \A i \in T : i \in 0 .. n
  OBVIOUS
<1>2. U \in SUBSET Nat /\ U # {}
  BY <1>1
<1>3. PICK a \in U : \A b \in U : a <= b
  <2> HIDE DEF U
  <2> QED
    BY <1>2, LeastExists
<1>4. PICK i \in T : a = n - i
  OBVIOUS
<1>5. \A j \in T : i >= j
  <2>1. ASSUME NEW j \in T PROVE i >= j
    <3>1. n - i <= n - j
      BY <1>3, <1>4
    <3> QED
      BY <1>1, <3>1
  <2> QED
    BY <2>1
<1>6. Max(T) \in T /\ \A j \in T : Max(T) >= j
  BY <1>4, <1>5 DEF Max
<1> QED
  BY <1>1, <1>6 DEF Latest

(* The positions after the last report of a rule are those that every      *)
(* report of it precedes.                                                  *)
LEMMA AfterPrevious ==
    ASSUME NEW rule, NEW n \in Nat
    PROVE  \A i \in 1 .. n :
              i \in Previous(rule, n) + 1 .. n <=>
                  \A r \in 1 .. n - 1 :
                      RaisedIn(results, rule, r) /\ SameSubject(rule, log[r], log[n]) => r < i
<1> DEFINE S == Reports(rule, n)
<1>1. S \in SUBSET (1 .. n)
  <2>1. \A r \in 1 .. n - 1 : r \in 1 .. n
    OBVIOUS
  <2> QED
    BY <2>1 DEF Reports
<1>2. /\ Previous(rule, n) \in S \cup {0}
      /\ Previous(rule, n) \in 0 .. n
      /\ \A r \in S : r <= Previous(rule, n)
  <2> HIDE DEF S
  <2>1. Latest(S) \in S \cup {0} /\ Latest(S) \in 0 .. n /\ \A r \in S : r <= Latest(S)
    BY <1>1, LatestIs
  <2> QED
    BY <2>1 DEF Previous, S
<1>3. \A r : r \in S <=> /\ r \in 1 .. n - 1
                         /\ RaisedIn(results, rule, r) /\ SameSubject(rule, log[r], log[n])
  BY DEF Reports, Raised, RaisedIn
<1> HIDE DEF S
<1> SUFFICES ASSUME NEW i \in 1 .. n
             PROVE  i \in Previous(rule, n) + 1 .. n <=> \A r \in S : r < i
  BY <1>3
<1>4. i \in Previous(rule, n) + 1 .. n <=> Previous(rule, n) < i
  BY <1>2
<1>5. \A r \in S : r \in Nat
  BY <1>1
<1>6. ASSUME Previous(rule, n) < i
      PROVE  \A r \in S : r < i
  BY <1>2, <1>5, <1>6
<1>7. ASSUME \A r \in S : r < i
      PROVE  Previous(rule, n) < i
  BY <1>2, <1>7
<1> QED
  BY <1>4, <1>6, <1>7

(* The last report is a position before n, or 0.                           *)
LEMMA PreviousType ==
    ASSUME NEW rule, NEW n \in Nat
    PROVE  Previous(rule, n) \in 0 .. n
<1>1. Reports(rule, n) \in SUBSET (1 .. n)
  <2>1. \A r \in 1 .. n - 1 : r \in 1 .. n
    OBVIOUS
  <2> QED
    BY <2>1 DEF Reports
<1> QED
  BY <1>1, LatestIs DEF Previous

(* The last entries since a position complete a window of the rule at n:   *)
(* Completes of AnomalyProperties with the rule's own parameters.          *)
Answers(rule, n, since) ==
    LET last == LastOf({i \in since + 1 .. n :
                           SameSubject(rule, log[i], log[n]) /\ CountedAt(rule, log, i)},
                       Capacity(rule))
    IN  /\ n \in last
        /\ Cardinality(last) = Capacity(rule)
        /\ Ts(n) - Ts(Min(last)) <= Seconds(rule)
        /\ Cardinality({ValueOf(rule, log[i]) : i \in last}) >= Different(rule)

(* What CompletesAt says, in the words of Completes. *)
LEMMA CompletesAtIs ==
    ASSUME NEW rule \in WindowRules, NEW n \in 1 .. Len(log), log \in Seq(Entries)
    PROVE  LET last == LastOf(PositionsOf(rule, log, results, log[n], n - 1, n), Capacity(rule))
           IN  CompletesAt(rule, log, results, n) <=>
                  /\ n \in last
                  /\ Cardinality(last) = Capacity(rule)
                  /\ Ts(n) - Ts(Min(last)) <= Seconds(rule)
                  /\ Cardinality({ValueOf(rule, log[i]) : i \in last}) >= Different(rule)
<1> DEFINE S == PositionsOf(rule, log, results, log[n], n - 1, n)
           last == LastOf(S, Capacity(rule))
           f == EventOf(rule, log)
<1>1. Len(log) \in Nat /\ n \in Nat /\ \A i \in 1 .. n : i \in 1 .. Len(log)
  OBVIOUS
<1>2. S \in SUBSET (1 .. n) /\ S \in SUBSET Nat
  BY <1>1, PositionsType
<1>3. \A i \in last : i \in 1 .. Len(log) /\ i \in Nat
  <2> HIDE DEF S
  <2> QED
    BY <1>1, <1>2 DEF LastOf
<1>4. \A i \in 1 .. Len(log) : f[i].ts = Ts(i) /\ f[i].value = ValueOf(rule, log[i])
  BY DEF EventOf, Ts
<1> HIDE DEF f, last
<1>5. {f[i].value : i \in last} = {ValueOf(rule, log[i]) : i \in last}
  <2>1. \A i \in last : f[i].value = ValueOf(rule, log[i])
    BY <1>3, <1>4
  <2> QED
    BY <2>1
<1>6. ASSUME n \in last
      PROVE  f[n].ts - f[Min(last)].ts = Ts(n) - Ts(Min(last))
  <2>1. last \in SUBSET Nat /\ last # {}
    BY <1>3, <1>6
  <2>2. \E x \in last : \A y \in last : x <= y
    BY <2>1, LeastExists
  <2>3. Min(last) \in last
    BY <2>2 DEF Min
  <2> QED
    BY <1>3, <1>4, <1>6, <2>3
<1>7. CompletesAt(rule, log, results, n) <=>
        /\ n \in last
        /\ Cardinality(last) = Capacity(rule)
        /\ f[n].ts - f[Min(last)].ts <= Seconds(rule)
        /\ Cardinality({f[i].value : i \in last}) >= Different(rule)
  BY DEF CompletesAt, CompletesIn, f, last
<1>8. CompletesAt(rule, log, results, n) <=>
        /\ n \in last
        /\ Cardinality(last) = Capacity(rule)
        /\ Ts(n) - Ts(Min(last)) <= Seconds(rule)
        /\ Cardinality({ValueOf(rule, log[i]) : i \in last}) >= Different(rule)
  BY <1>5, <1>6, <1>7
<1> QED
  BY <1>8 DEF last

(* What CompletesAt says of the positions after the reports, Answers says  *)
(* of those since the last one.                                            *)
LEMMA AnswersAre ==
    ASSUME NEW rule \in WindowRules, NEW n \in 1 .. Len(log), log \in Seq(Entries)
    PROVE  CompletesAt(rule, log, results, n) <=>
              Answers(rule, n, IF rule \in OnceWindowRules THEN 0 ELSE Previous(rule, n))
<1> DEFINE since == IF rule \in OnceWindowRules THEN 0 ELSE Previous(rule, n)
           S == PositionsOf(rule, log, results, log[n], n - 1, n)
           C == {i \in since + 1 .. n :
                    SameSubject(rule, log[i], log[n]) /\ CountedAt(rule, log, i)}
<1>1. n \in Nat /\ Len(log) \in Nat
  OBVIOUS
<1>2. \A i \in since + 1 .. n : i \in 1 .. n
  BY <1>1, PreviousType
<1>3. \A i \in 1 .. n : i \in since + 1 .. n <=>
         \/ rule \in OnceWindowRules
         \/ \A r \in 1 .. n - 1 :
               RaisedIn(results, rule, r) /\ SameSubject(rule, log[r], log[n]) => r < i
  BY <1>1, AfterPrevious
<1>4. S = C
  <2> HIDE DEF since
  <2> QED
    BY <1>2, <1>3 DEF PositionsOf
<1>5. LET last == LastOf(S, Capacity(rule))
      IN  CompletesAt(rule, log, results, n) <=>
                  /\ n \in last
                  /\ Cardinality(last) = Capacity(rule)
                  /\ Ts(n) - Ts(Min(last)) <= Seconds(rule)
                  /\ Cardinality({ValueOf(rule, log[i]) : i \in last}) >= Different(rule)
  BY CompletesAtIs
<1> HIDE DEF S, since
<1> QED
  BY <1>4, <1>5 DEF Answers, since

(* What a rule that goes on reporting, and one that reports once, owe. *)
LEMMA RaisedIfAnswers ==
    ASSUME TypeOK, WindowInv, NEW rule \in WindowRules, NEW n \in DOMAIN log
    PROVE  /\ n \in 1 .. Len(log) /\ log \in Seq(Entries)
           /\ rule \notin OnceWindowRules =>
                 (Raised(rule, n) <=> Answers(rule, n, Previous(rule, n)))
           /\ rule \in OnceWindowRules =>
                 (Raised(rule, n) <=>
                    /\ Answers(rule, n, 0)
                    /\ \A i \in 1 .. n - 1 :
                          SameSubject(rule, log[i], log[n]) => ~Answers(rule, i, 0))
<1>1. log \in Seq(Entries) /\ n \in 1 .. Len(log)
  BY DEF TypeOK
<1>2. RaisedWhereDue(rule, log, results, n)
  BY <1>1 DEF WindowInv, AllRaisedWhereDue
<1>3. \A i \in 1 .. n - 1 : i \in 1 .. Len(log)
  BY <1>1
<1>4. ASSUME NEW i \in 1 .. Len(log)
      PROVE  CompletesAt(rule, log, results, i) <=>
              Answers(rule, i, IF rule \in OnceWindowRules THEN 0 ELSE Previous(rule, i))
  BY <1>1, AnswersAre
<1> QED
  BY <1>1, <1>2, <1>3, <1>4 DEF RaisedWhereDue, Raised, RaisedIn

(* Rule 2 *)
LEMMA DeviceHoppingFollows ==
    ASSUME TypeOK, WindowInv
    PROVE  DeviceHoppingExact
<1> DEFINE rule == "DEVICE_HOPPING"
<1> SUFFICES ASSUME NEW n \in DOMAIN log
             PROVE  Raised(rule, n) <=>
                      Completes(rule, n, Previous(rule, n), DEVICE_HOP_THRESHOLD,
                                DEVICE_HOP_THRESHOLD, DEVICE_HOP_WINDOW_SEC,
                                LAMBDA i : Is(log[i], "LOGIN"), LAMBDA i : log[i].deviceId)
  BY DEF DeviceHoppingExact
<1>1. rule \in WindowRules /\ rule \notin OnceWindowRules
  BY DEF WindowRules, OnceWindowRules
<1>2. /\ Capacity(rule) = DEVICE_HOP_THRESHOLD /\ Different(rule) = DEVICE_HOP_THRESHOLD
      /\ Seconds(rule) = DEVICE_HOP_WINDOW_SEC
      /\ \A e : ValueOf(rule, e) = e.deviceId
      /\ \A i : CountedAt(rule, log, i) <=> Is(log[i], "LOGIN")
  BY DEF Capacity, Different, Seconds, ValueOf, CountedAt
<1>3. Raised(rule, n) <=> Answers(rule, n, Previous(rule, n))
  BY <1>1, RaisedIfAnswers
<1> HIDE DEF rule
<1>4. Answers(rule, n, Previous(rule, n)) <=>
         Completes(rule, n, Previous(rule, n), DEVICE_HOP_THRESHOLD,
                   DEVICE_HOP_THRESHOLD, DEVICE_HOP_WINDOW_SEC,
                   LAMBDA i : Is(log[i], "LOGIN"), LAMBDA i : log[i].deviceId)
  BY <1>2 DEF Answers, Completes
<1> QED
  BY <1>3, <1>4
-----------------------------------------------------------------------------
(* Rule 3 *)
LEMMA ResourceScanFollows ==
    ASSUME TypeOK, WindowInv
    PROVE  ResourceScanExact
<1> DEFINE rule == "RESOURCE_SCAN"
<1> SUFFICES ASSUME NEW n \in DOMAIN log
             PROVE  Raised(rule, n) <=>
                      Completes(rule, n, Previous(rule, n), RESOURCE_SCAN_THRESHOLD,
                                RESOURCE_SCAN_THRESHOLD, RESOURCE_SCAN_WINDOW_SEC,
                                LAMBDA i : log[i].resourceId # 0, LAMBDA i : log[i].resourceId)
  BY DEF ResourceScanExact
<1>1. rule \in WindowRules /\ rule \notin OnceWindowRules
  BY DEF WindowRules, OnceWindowRules
<1>2. /\ Capacity(rule) = RESOURCE_SCAN_THRESHOLD /\ Different(rule) = RESOURCE_SCAN_THRESHOLD
      /\ Seconds(rule) = RESOURCE_SCAN_WINDOW_SEC
      /\ \A e : ValueOf(rule, e) = e.resourceId
      /\ \A i : CountedAt(rule, log, i) <=> log[i].resourceId # 0
  BY DEF Capacity, Different, Seconds, ValueOf, CountedAt
<1>3. Raised(rule, n) <=> Answers(rule, n, Previous(rule, n))
  BY <1>1, RaisedIfAnswers
<1> HIDE DEF rule
<1>4. {i \in Previous(rule, n) + 1 .. n :
          SameSubject(rule, log[i], log[n]) /\ CountedAt(rule, log, i)}
        = {i \in Previous(rule, n) + 1 .. n :
              SameSubject(rule, log[i], log[n]) /\ log[i].resourceId # 0}
  BY <1>2
<1> DEFINE C == {i \in Previous(rule, n) + 1 .. n :
                    SameSubject(rule, log[i], log[n]) /\ log[i].resourceId # 0}
           last == LastOf(C, RESOURCE_SCAN_THRESHOLD)
           due == /\ n \in last
                  /\ Cardinality(last) = RESOURCE_SCAN_THRESHOLD
                  /\ Ts(n) - Ts(Min(last)) <= RESOURCE_SCAN_WINDOW_SEC
                  /\ Cardinality({log[i].resourceId : i \in last}) >= RESOURCE_SCAN_THRESHOLD
<1>5. Answers(rule, n, Previous(rule, n)) <=> due
  <2>1. {ValueOf(rule, log[i]) : i \in last} = {log[i].resourceId : i \in last}
    BY <1>2
  <2> HIDE DEF C
  <2> QED
    BY <1>2, <1>4, <2>1 DEF Answers, C
<1>6. Completes(rule, n, Previous(rule, n), RESOURCE_SCAN_THRESHOLD,
                RESOURCE_SCAN_THRESHOLD, RESOURCE_SCAN_WINDOW_SEC,
                LAMBDA i : log[i].resourceId # 0, LAMBDA i : log[i].resourceId) <=> due
  BY DEF Completes
<1> QED
  BY <1>3, <1>5, <1>6

(* The last entry of a user before position i, as the property has it. *)
LEMMA LatestEntry ==
    ASSUME NEW i \in 1 .. Len(log)
    PROVE  LET before == Latest(Timeline(i, 1, i - 1))
           IN  /\ before \in 0 .. i - 1
               /\ \A j \in 1 .. i - 1 :
                     j = before <=> /\ log[j].userId = log[i].userId
                                    /\ \A k \in j + 1 .. i - 1 : log[k].userId # log[i].userId
<1> DEFINE S == Timeline(i, 1, i - 1)
           before == Latest(S)
<1> SUFFICES /\ before \in 0 .. i - 1
             /\ \A j \in 1 .. i - 1 :
                   j = before <=> /\ log[j].userId = log[i].userId
                                  /\ \A k \in j + 1 .. i - 1 : log[k].userId # log[i].userId
  OBVIOUS
<1>1. i \in Nat /\ i - 1 \in Nat
  OBVIOUS
<1>2. S \in SUBSET (1 .. i - 1)
  BY DEF Timeline
<1>3. \A j : j \in S <=> j \in 1 .. i - 1 /\ log[j].userId = log[i].userId
  BY DEF Timeline
<1> HIDE DEF S
<1>4. before \in S \cup {0} /\ before \in 0 .. i - 1 /\ \A j \in S : j <= before
  BY <1>1, <1>2, LatestIs
<1> HIDE DEF before
<1>5. ASSUME NEW j \in 1 .. i - 1
      PROVE  j = before <=> /\ log[j].userId = log[i].userId
                            /\ \A k \in j + 1 .. i - 1 : log[k].userId # log[i].userId
  <2>1. ASSUME j = before PROVE j \in S /\ \A k \in j + 1 .. i - 1 : k \notin S
    <3>1. j \in S
      BY <1>4, <2>1
    <3>2. \A k \in j + 1 .. i - 1 : ~(k <= before)
      BY <2>1
    <3> QED
      BY <1>4, <3>1, <3>2
  <2>2. ASSUME j \in S, \A k \in j + 1 .. i - 1 : k \notin S
        PROVE  j = before
    <3>1. j <= before /\ before # 0
      BY <1>4, <2>2
    <3>2. before \in S
      BY <1>4, <3>1
    <3>3. before \in 1 .. i - 1
      BY <1>3, <3>2
    <3>4. j < before => before \in j + 1 .. i - 1
      BY <3>3
    <3> QED
      BY <2>2, <3>1, <3>2, <3>3, <3>4
  <2>3. \A k \in j + 1 .. i - 1 : k \in 1 .. i - 1
    OBVIOUS
  <2> QED
    BY <1>3, <2>1, <2>2, <2>3
<1> QED
  BY <1>4, <1>5

(* A change of country, as the property and as the windows have it. *)
LEMMA EntersIs ==
    ASSUME NEW i \in 1 .. Len(log)
    PROVE  Enters(i) <=> EntersAt(log, i)
<1> DEFINE before == Latest(Timeline(i, 1, i - 1))
<1>1. /\ before \in 0 .. i - 1
      /\ \A j \in 1 .. i - 1 :
            j = before <=> /\ log[j].userId = log[i].userId
                           /\ \A k \in j + 1 .. i - 1 : log[k].userId # log[i].userId
  BY LatestEntry
<1>2. Enters(i) <=> /\ log[i].location # 0
                    /\ before # 0 => log[before].location # log[i].location
  BY DEF Enters, LOC_US
<1> HIDE DEF before
<1>3. before # 0 <=> before \in 1 .. i - 1
  BY <1>1
<1> QED
  BY <1>1, <1>2, <1>3 DEF EntersAt

(* Rule 6 *)
LEMMA MultiCountryFollows ==
    ASSUME TypeOK, WindowInv
    PROVE  MultiCountryExact
<1> DEFINE rule == "MULTI_COUNTRY_HOPPING"
<1> SUFFICES ASSUME NEW n \in DOMAIN log
             PROVE  Raised(rule, n) <=>
                      Completes(rule, n, Previous(rule, n), CountryCapacity,
                                MULTI_COUNTRY_THRESHOLD, MULTI_COUNTRY_WINDOW_SEC,
                                Enters, LAMBDA i : log[i].location)
  BY DEF MultiCountryExact
<1>1. rule \in WindowRules /\ rule \notin OnceWindowRules
  BY DEF WindowRules, OnceWindowRules
<1>2. /\ Capacity(rule) = CountryCapacity /\ Different(rule) = MULTI_COUNTRY_THRESHOLD
      /\ Seconds(rule) = MULTI_COUNTRY_WINDOW_SEC
      /\ \A e : ValueOf(rule, e) = e.location
      /\ \A i : CountedAt(rule, log, i) <=> EntersAt(log, i)
  BY DEF Capacity, Different, Seconds, ValueOf, CountedAt
<1>3. (Raised(rule, n) <=> Answers(rule, n, Previous(rule, n))) /\ n \in 1 .. Len(log)
  BY <1>1, RaisedIfAnswers
<1>4. \A i \in Previous(rule, n) + 1 .. n : i \in 1 .. Len(log)
  BY <1>3, PreviousType
<1> HIDE DEF rule
<1>5. {i \in Previous(rule, n) + 1 .. n :
          SameSubject(rule, log[i], log[n]) /\ CountedAt(rule, log, i)}
        = {i \in Previous(rule, n) + 1 .. n : SameSubject(rule, log[i], log[n]) /\ Enters(i)}
  <2>1. \A i \in Previous(rule, n) + 1 .. n : CountedAt(rule, log, i) <=> Enters(i)
    BY <1>2, <1>4, EntersIs
  <2> QED
    BY <2>1
<1>6. Answers(rule, n, Previous(rule, n)) <=>
         Completes(rule, n, Previous(rule, n), CountryCapacity,
                   MULTI_COUNTRY_THRESHOLD, MULTI_COUNTRY_WINDOW_SEC,
                   Enters, LAMBDA i : log[i].location)
  BY <1>2, <1>5 DEF Answers, Completes
<1> QED
  BY <1>3, <1>6

(* Rule 12 *)
LEMMA ExfiltrationFollows ==
    ASSUME TypeOK, WindowInv
    PROVE  ExfiltrationExact
<1> DEFINE rule == "DATA_EXFILTRATION"
           At(i) == Completes(rule, i, 0, EXFILTRATION_THRESHOLD, EXFILTRATION_THRESHOLD,
                              EXFILTRATION_WINDOW_SEC, LAMBDA j : NightDownload(log[j]),
                              LAMBDA j : log[j].resourceId)
<1> SUFFICES ASSUME NEW n \in DOMAIN log
             PROVE  Raised(rule, n) <=>
                       /\ At(n)
                       /\ \A i \in 1 .. n - 1 : SameSubject(rule, log[i], log[n]) => ~At(i)
  BY DEF ExfiltrationExact, FiresFirstTime
<1>1. rule \in WindowRules /\ rule \in OnceWindowRules
  BY DEF WindowRules, OnceWindowRules
<1>2. /\ Capacity(rule) = EXFILTRATION_THRESHOLD
      /\ Different(rule) = EXFILTRATION_THRESHOLD
      /\ Seconds(rule) = EXFILTRATION_WINDOW_SEC
      /\ \A e : ValueOf(rule, e) = e.resourceId
      /\ \A i : CountedAt(rule, log, i) <=> NightDownload(log[i])
  BY DEF Capacity, Different, Seconds, ValueOf, CountedAt
<1>3. Raised(rule, n) <=>
         /\ Answers(rule, n, 0)
         /\ \A i \in 1 .. n - 1 : SameSubject(rule, log[i], log[n]) => ~Answers(rule, i, 0)
  BY <1>1, RaisedIfAnswers
<1>4. ASSUME NEW i
      PROVE  Answers(rule, i, 0) <=> At(i)
  <2> HIDE DEF rule
  <2> QED
    BY <1>2 DEF Answers, Completes
<1> HIDE DEF rule, At
<1> QED
  BY <1>3, <1>4

(* Rule 14 *)
LEMMA LateralMovementFollows ==
    ASSUME TypeOK, WindowInv
    PROVE  LateralMovementExact
<1> DEFINE rule == "LATERAL_MOVEMENT"
           At(i) == Completes(rule, i, 0, LATERAL_MOVEMENT_THRESHOLD, LATERAL_MOVEMENT_THRESHOLD,
                              LATERAL_MOVEMENT_WINDOW_SEC, LAMBDA j : TRUE,
                              LAMBDA j : log[j].appId)
<1> SUFFICES ASSUME NEW n \in DOMAIN log
             PROVE  Raised(rule, n) <=>
                       /\ At(n)
                       /\ \A i \in 1 .. n - 1 : SameSubject(rule, log[i], log[n]) => ~At(i)
  BY DEF LateralMovementExact, FiresFirstTime
<1>1. rule \in WindowRules /\ rule \in OnceWindowRules
  BY DEF WindowRules, OnceWindowRules
<1>2. /\ Capacity(rule) = LATERAL_MOVEMENT_THRESHOLD
      /\ Different(rule) = LATERAL_MOVEMENT_THRESHOLD
      /\ Seconds(rule) = LATERAL_MOVEMENT_WINDOW_SEC
      /\ \A e : ValueOf(rule, e) = e.appId
      /\ \A i : CountedAt(rule, log, i) <=> TRUE
  BY DEF Capacity, Different, Seconds, ValueOf, CountedAt
<1>3. Raised(rule, n) <=>
         /\ Answers(rule, n, 0)
         /\ \A i \in 1 .. n - 1 : SameSubject(rule, log[i], log[n]) => ~Answers(rule, i, 0)
  BY <1>1, RaisedIfAnswers
<1>4. ASSUME NEW i
      PROVE  Answers(rule, i, 0) <=> At(i)
  <2> HIDE DEF rule
  <2> QED
    BY <1>2 DEF Answers, Completes
<1> HIDE DEF rule, At
<1> QED
  BY <1>3, <1>4

(* Rule 13 *)
LEMMA SharedDeviceFollows ==
    ASSUME TypeOK, WindowInv
    PROVE  SharedDeviceExact
<1> DEFINE rule == "COMPROMISED_DEVICE"
           At(i) == Completes(rule, i, 0, COMPROMISED_DEVICE_THRESHOLD, COMPROMISED_DEVICE_THRESHOLD,
                              COMPROMISED_DEVICE_WINDOW_SEC, LAMBDA j : Is(log[j], "LOGIN"),
                              LAMBDA j : log[j].userId)
<1> SUFFICES ASSUME NEW n \in DOMAIN log
             PROVE  Raised(rule, n) <=>
                       /\ At(n)
                       /\ \A i \in 1 .. n - 1 : SameSubject(rule, log[i], log[n]) => ~At(i)
  BY DEF SharedDeviceExact, FiresFirstTime
<1>1. rule \in WindowRules /\ rule \in OnceWindowRules
  BY DEF WindowRules, OnceWindowRules
<1>2. /\ Capacity(rule) = COMPROMISED_DEVICE_THRESHOLD
      /\ Different(rule) = COMPROMISED_DEVICE_THRESHOLD
      /\ Seconds(rule) = COMPROMISED_DEVICE_WINDOW_SEC
      /\ \A e : ValueOf(rule, e) = e.userId
      /\ \A i : CountedAt(rule, log, i) <=> Is(log[i], "LOGIN")
  BY DEF Capacity, Different, Seconds, ValueOf, CountedAt
<1>3. Raised(rule, n) <=>
         /\ Answers(rule, n, 0)
         /\ \A i \in 1 .. n - 1 : SameSubject(rule, log[i], log[n]) => ~Answers(rule, i, 0)
  BY <1>1, RaisedIfAnswers
<1>4. ASSUME NEW i
      PROVE  Answers(rule, i, 0) <=> At(i)
  <2> HIDE DEF rule
  <2> QED
    BY <1>2 DEF Answers, Completes
<1> HIDE DEF rule, At
<1> QED
  BY <1>3, <1>4
-----------------------------------------------------------------------------
(* Every set of positions has its last ones. *)
LEMMA PositionsExist ==
    ASSUME NEW k \in Nat \ {0}, NEW n \in Nat, NEW S \in SUBSET (1 .. n)
    PROVE  \E p \in Seq(Nat) : LastPositions(p, S, k)
<1> DEFINE Part(m) == S \cap (1 .. m)
           T == {m \in 0 .. n : ~\E p \in Seq(Nat) : LastPositions(p, Part(m), k)}
<1>1. SUFFICES ASSUME n \in T PROVE FALSE
  <2>1. Part(n) = S
    OBVIOUS
  <2> QED
    BY <2>1
<1>2. PICK m \in T : \A j \in T : m <= j
  <2>1. T \in SUBSET Nat
    OBVIOUS
  <2> HIDE DEF T
  <2> QED
    BY <1>1, <2>1, LeastExists
<1>3. m \in 0 .. n /\ ~\E p \in Seq(Nat) : LastPositions(p, Part(m), k)
  OBVIOUS
<1>4. CASE m = 0
  <2>1. Part(m) = {}
    BY <1>4
  <2> QED
    BY <1>3, <2>1, NoPositions
<1>5. CASE m # 0
  <2>1. m - 1 \in 0 .. n /\ m - 1 \notin T /\ m \in Nat
    <3> HIDE DEF T
    <3>1. m - 1 \in 0 .. n /\ ~(m <= m - 1)
      BY <1>3, <1>5
    <3> QED
      BY <1>2, <1>3, <3>1
  <2>2. PICK p \in Seq(Nat) : LastPositions(p, Part(m - 1), k)
    BY <2>1
  <2>3. Part(m - 1) \in SUBSET Nat /\ \A s \in Part(m - 1) : s < m
    BY <2>1
  <2>4. CASE m \in S
    <3>1. Part(m) = Part(m - 1) \cup {m}
      BY <1>3, <1>5, <2>4
    <3> HIDE DEF Part
    <3>2. Pushed(k, p, m) \in Seq(Nat) /\ LastPositions(Pushed(k, p, m), Part(m - 1) \cup {m}, k)
      BY <2>1, <2>2, <2>3, PositionPushed
    <3> QED
      BY <1>3, <3>1, <3>2
  <2>5. CASE m \notin S
    <3>1. Part(m) = Part(m - 1)
      BY <1>3, <1>5, <2>5
    <3> QED
      BY <1>3, <2>2, <3>1
  <2> QED
    BY <2>4, <2>5
<1> QED
  BY <1>4, <1>5

(* Where the positions F that are still in a window are the last ones of   *)
(* S, n completes k of them if and only if the k-th last of S is in F.     *)
LEMMA FullWindow ==
    ASSUME NEW k \in Nat \ {0}, NEW n \in Nat, NEW S \in SUBSET (1 .. n), NEW F \in SUBSET S,
           \A i \in F, j \in S : i < j => j \in F, n \in S => n \in F
    PROVE  n \in S /\ Cardinality(F) >= k
           <=> /\ n \in LastOf(S, k)
               /\ Cardinality(LastOf(S, k)) = k
               /\ Min(LastOf(S, k)) \in F
<1> DEFINE last == LastOf(S, k)
<1>1. S \in SUBSET Nat /\ IsFiniteSet(S) /\ IsFiniteSet(F) /\ Cardinality(F) \in Nat
  <2>1. IsFiniteSet(1 .. n)
    BY FS_Interval
  <2>2. IsFiniteSet(S)
    BY <2>1, FS_Subset
  <2>3. IsFiniteSet(F)
    BY <2>2, FS_Subset
  <2> QED
    BY <2>2, <2>3, FS_CardinalityType
<1>2. last \in SUBSET S /\ \A s \in last : Cardinality({j \in S : j > s}) < k
  BY DEF LastOf
<1>3. ASSUME last # {}
      PROVE  Min(last) \in last /\ \A s \in last : Min(last) <= s
  <2>1. last \in SUBSET Nat
    BY <1>1, <1>2
  <2> HIDE DEF last
  <2>2. \E x \in last : \A y \in last : x <= y
    BY <1>3, <2>1, LeastExists
  <2> QED
    BY <2>2 DEF Min
<1>4. ASSUME n \in last, Cardinality(last) = k, Min(last) \in F
      PROVE  n \in S /\ Cardinality(F) >= k
  <2>1. last \subseteq F
    <3>1. ASSUME NEW s \in last PROVE s \in F
      <4>1. Min(last) \in last /\ Min(last) <= s /\ s \in S /\ s \in Nat /\ Min(last) \in Nat
        BY <1>1, <1>2, <1>3
      <4>2. Min(last) = s \/ Min(last) < s
        BY <4>1
      <4> QED
        BY <1>4, <4>1, <4>2
    <3> QED
      BY <3>1
  <2> HIDE DEF last
  <2>2. Cardinality(last) <= Cardinality(F)
    BY <1>1, <2>1, FS_Subset
  <2> QED
    BY <1>1, <1>2, <1>4, <2>2
<1>5. ASSUME n \in S, Cardinality(F) >= k
      PROVE  n \in last /\ Cardinality(last) = k /\ Min(last) \in F
  <2>1. n \in last
    <3>1. {j \in S : j > n} = {}
      <4>1. \A j \in 1 .. n : ~(j > n)
        OBVIOUS
      <4> QED
        BY <4>1
    <3>2. Cardinality({j \in S : j > n}) < k
      BY <3>1, FS_EmptySet
    <3> QED
      BY <1>5, <3>2 DEF LastOf
  <2>2. Cardinality(last) = k
    <3>1. PICK p \in Seq(Nat) : LastPositions(p, S, k)
      BY PositionsExist
    <3>2. last = {p[i] : i \in 1 .. Len(p)} /\ Cardinality(last) = Len(p)
      BY <1>1, <3>1, PositionsAbove
    <3>3. Len(p) \in Nat /\ Len(p) <= k
      BY <3>1 DEF LastPositions
    <3>4. CASE Len(p) # k
      <4>1. S = last
        <5> HIDE DEF last
        <5>1. \A s \in S : s \in last
          BY <3>1, <3>2, <3>4 DEF LastPositions
        <5> QED
          BY <1>2, <5>1
      <4>2. Cardinality(F) <= Cardinality(S)
        BY <1>1, FS_Subset
      <4>3. Cardinality(S) = Len(p)
        BY <3>2, <4>1, Zenon
      <4> QED
        BY <1>1, <1>5, <3>3, <3>4, <4>2, <4>3
    <3> QED
      BY <3>2, <3>4
  <2>3. Min(last) \in F
    <3> SUFFICES ASSUME Min(last) \notin F PROVE FALSE
      OBVIOUS
    <3> DEFINE a == Min(last)
               A == {j \in S : j > a}
    <3>1. a \in last /\ a \in S /\ a \in Nat /\ Cardinality(A) < k
      BY <1>1, <1>2, <1>3, <2>1
    <3>2. a \notin F
      OBVIOUS
    <3>3. F \subseteq A
      <4> HIDE DEF a, last
      <4>1. ASSUME NEW i \in F PROVE i \in S /\ i > a
        <5>1. i \in S /\ i \in Nat /\ i # a /\ ~(i < a)
          BY <1>1, <3>1, <3>2
        <5> QED
          BY <3>1, <5>1
      <4> QED
        BY <4>1
    <3>4. IsFiniteSet(A)
      BY <1>1, FS_Subset
    <3> HIDE DEF A
    <3>5. Cardinality(F) <= Cardinality(A) /\ Cardinality(A) \in Nat
      BY <3>3, <3>4, FS_Subset, FS_CardinalityType
    <3> QED
      BY <1>1, <1>5, <3>1, <3>5
  <2> QED
    BY <2>1, <2>2, <2>3
<1> QED
  BY <1>4, <1>5

(* F, the part of S from some position on, holds k positions if and only   *)
(* if the last k positions of S are k, and all in F.                       *)
LEMMA FullTail ==
    ASSUME NEW k \in Nat \ {0}, NEW n \in Nat, NEW S \in SUBSET (1 .. n), NEW F \in SUBSET S,
           \A i \in F, j \in S : i < j => j \in F
    PROVE  Cardinality(F) >= k <=> Cardinality(LastOf(S, k)) = k /\ LastOf(S, k) \subseteq F
<1> DEFINE last == LastOf(S, k)
<1>1. /\ S \in SUBSET Nat /\ IsFiniteSet(S) /\ IsFiniteSet(F)
      /\ Cardinality(F) \in Nat /\ Cardinality(F) <= Cardinality(S)
  <2>1. IsFiniteSet(1 .. n)
    BY FS_Interval
  <2>2. IsFiniteSet(S)
    BY <2>1, FS_Subset
  <2>3. IsFiniteSet(F) /\ Cardinality(F) <= Cardinality(S)
    BY <2>2, FS_Subset
  <2> QED
    BY <2>2, <2>3, FS_CardinalityType
<1>2. last \in SUBSET S /\ \A s \in last : Cardinality({j \in S : j > s}) < k
  BY DEF LastOf
<1>3. ASSUME Cardinality(last) = k, last \subseteq F
      PROVE  Cardinality(F) >= k
  <2> HIDE DEF last
  <2> QED
    BY <1>1, <1>3, FS_Subset
<1>4. ASSUME Cardinality(F) >= k
      PROVE  Cardinality(last) = k
  <2>1. PICK p \in Seq(Nat) : LastPositions(p, S, k)
    BY PositionsExist
  <2>2. last = {p[i] : i \in 1 .. Len(p)} /\ Cardinality(last) = Len(p)
    BY <1>1, <2>1, PositionsAbove
  <2>3. Len(p) \in Nat /\ Len(p) <= k
    BY <2>1 DEF LastPositions
  <2> HIDE DEF last
  <2>4. CASE Len(p) # k
    <3>1. S = last
      <4>1. \A s \in S : s \in last
        BY <2>1, <2>2, <2>4 DEF LastPositions
      <4> QED
        BY <1>2, <4>1
    <3>2. Cardinality(S) = Len(p)
      BY <2>2, <3>1, Zenon
    <3> QED
      BY <1>1, <1>4, <2>3, <2>4, <3>2
  <2> QED
    BY <2>2, <2>4
<1>5. ASSUME Cardinality(F) >= k, NEW s \in last
      PROVE  s \in F
  <2> SUFFICES ASSUME s \notin F PROVE FALSE
    OBVIOUS
  <2> DEFINE A == {j \in S : j > s}
  <2>1. s \in S /\ Cardinality(A) < k
    BY <1>2
  <2> HIDE DEF last
  <2>2. F \subseteq A
    <3>1. ASSUME NEW i \in F PROVE i \in S /\ i > s
      <4>1. i \in S /\ i \in Nat /\ s \in Nat /\ i # s /\ ~(i < s)
        BY <1>1, <2>1
      <4> QED
        BY <4>1
    <3> QED
      BY <3>1
  <2>3. IsFiniteSet(A)
    BY <1>1, FS_Subset
  <2> HIDE DEF A
  <2>4. Cardinality(F) <= Cardinality(A) /\ Cardinality(A) \in Nat
    BY <2>2, <2>3, FS_Subset, FS_CardinalityType
  <2> QED
    BY <1>1, <1>5, <2>1, <2>4
<1> QED
  BY <1>3, <1>4, <1>5

(* The last k positions of a set are upward closed in it. *)
LEMMA LastOnes ==
    ASSUME NEW k \in Nat \ {0}, NEW n \in Nat, NEW S \in SUBSET (1 .. n),
           NEW i \in LastOf(S, k), NEW j \in S, i <= j
    PROVE  j \in LastOf(S, k)
<1> DEFINE A == {h \in S : h > i}
           B == {h \in S : h > j}
<1>1. i \in S /\ Cardinality(A) < k
  BY DEF LastOf
<1>2. i \in Nat /\ j \in Nat /\ \A h \in S : h \in Nat
  BY <1>1
<1>3. B \in SUBSET A
  <2>1. \A h \in S : h > j => h > i
    BY <1>2
  <2> QED
    BY <2>1
<1>4. IsFiniteSet(A)
  <2>1. IsFiniteSet(1 .. n)
    BY FS_Interval
  <2>2. A \in SUBSET (1 .. n)
    OBVIOUS
  <2> HIDE DEF A
  <2> QED
    BY <2>1, <2>2, FS_Subset
<1>5. Cardinality(B) < k
  <2> HIDE DEF A, B
  <2>1. IsFiniteSet(B) /\ Cardinality(B) <= Cardinality(A)
    BY <1>3, <1>4, FS_Subset
  <2>2. Cardinality(A) \in Nat /\ Cardinality(B) \in Nat
    BY <1>4, <2>1, FS_CardinalityType
  <2> QED
    BY <1>1, <2>1, <2>2
<1> QED
  BY <1>5 DEF LastOf

(* Rules 1 and 9 *)
LEMMA FullWindowFollows ==
    ASSUME TypeOK, WindowInv, NEW rule \in {"BRUTE_FORCE", "RAPID_SESSION"}, NEW type,
           \A i : CountedAt(rule, log, i) <=> Is(log[i], type)
    PROVE  FiresOnFullWindow(rule, type, Capacity(rule), Seconds(rule))
<1> DEFINE k == Capacity(rule)
           seconds == Seconds(rule)
<1> SUFFICES ASSUME NEW n \in DOMAIN log
             PROVE  Raised(rule, n) <=>
                      /\ Is(log[n], type)
                      /\ Cardinality(Fresh(rule, n, seconds, LAMBDA e : Is(e, type))) >= k
  BY DEF FiresOnFullWindow
<1>1. rule \in WindowRules /\ rule \notin OnceWindowRules /\ rule \notin DeviceRules
  BY DEF WindowRules, OnceWindowRules, DeviceRules
<1>2. /\ Different(rule) = 0
      /\ \A e : ValueOf(rule, e) = 0
      /\ k \in Nat \ {0}
  BY <1>1, CapacityType DEF Different, ValueOf
<1>3. /\ n \in 1 .. Len(log) /\ log \in Seq(Entries) /\ n \in Nat
      /\ Raised(rule, n) <=> Answers(rule, n, Previous(rule, n))
  BY <1>1, RaisedIfAnswers
<1> DEFINE since == Previous(rule, n)
           S == {i \in since + 1 .. n :
                    SameSubject(rule, log[i], log[n]) /\ CountedAt(rule, log, i)}
           F == {i \in S : Ts(n) - Ts(i) <= seconds}
           last == LastOf(S, k)
<1>4. since \in 0 .. n
  BY <1>3, PreviousType
<1>5. S \in SUBSET (1 .. n) /\ \A i \in S : i \in 1 .. Len(log) /\ log[i].userId = log[n].userId
  <2>1. \A i \in since + 1 .. n : i \in 1 .. n /\ i \in 1 .. Len(log)
    BY <1>3, <1>4
  <2> HIDE DEF since
  <2> QED
    BY <1>1, <2>1 DEF SameSubject
<1>6. \A i \in 1 .. Len(log) : Ts(i) \in Nat
  BY <1>3, EntryFields DEF Ts
<1>7. Answers(rule, n, since) <=>
         n \in last /\ Cardinality(last) = k /\ Ts(n) - Ts(Min(last)) <= seconds
  <2>1. Answers(rule, n, since) <=>
           /\ n \in last /\ Cardinality(last) = k /\ Ts(n) - Ts(Min(last)) <= seconds
           /\ Cardinality({ValueOf(rule, log[i]) : i \in last}) >= Different(rule)
    BY DEF Answers
  <2>2. ASSUME n \in last
        PROVE  Cardinality({ValueOf(rule, log[i]) : i \in last}) >= Different(rule)
    <3> HIDE DEF last
    <3>1. {ValueOf(rule, log[i]) : i \in last} = {0}
      BY <1>2, <2>2
    <3>2. Cardinality({0}) = 1
      BY FS_Singleton
    <3> QED
      BY <1>2, <3>1, <3>2
  <2> HIDE DEF last
  <2> QED
    BY <2>1, <2>2
<1>8. Fresh(rule, n, seconds, LAMBDA e : Is(e, type)) = F
  <2>1. \A i : SameSubject(rule, log[i], log[n]) <=> log[i].userId = log[n].userId
    BY <1>1 DEF SameSubject
  <2> QED
    BY <2>1 DEF Fresh, Timeline
<1>9. n \in S <=> Is(log[n], type)
  <2>1. n \in since + 1 .. n
    <3>1. n \in since + 1 .. n <=>
             \A r \in 1 .. n - 1 :
                 RaisedIn(results, rule, r) /\ SameSubject(rule, log[r], log[n]) => r < n
      BY <1>3, AfterPrevious
    <3> QED
      BY <1>3, <3>1
  <2> HIDE DEF since
  <2> QED
    BY <2>1 DEF SameSubject
<1> HIDE DEF S, since
<1>10. \A i \in F, j \in S : i < j => j \in F
  <2> SUFFICES ASSUME NEW i \in F, NEW j \in S, i < j PROVE Ts(n) - Ts(j) <= seconds
    OBVIOUS
  <2>1. i \in S /\ Ts(n) - Ts(i) <= seconds
    OBVIOUS
  <2>2. log[i].timestamp <= log[j].timestamp
    BY <1>5, <2>1 DEF WindowInv, Sorted
  <2>3. Ts(i) <= Ts(j) /\ Ts(i) \in Nat /\ Ts(j) \in Nat /\ Ts(n) \in Nat
    BY <1>3, <1>5, <1>6, <2>1, <2>2 DEF Ts
  <2>4. seconds \in Int
    BY ThresholdAssumption DEF Seconds, BRUTE_FORCE_WINDOW_SEC, RAPID_SESSION_WINDOW_SEC
  <2> QED
    BY <2>1, <2>3, <2>4
<1>11. n \in S => n \in F
  <2>1. Ts(n) - Ts(n) <= seconds
    BY <1>3, <1>6 DEF Seconds, BRUTE_FORCE_WINDOW_SEC, RAPID_SESSION_WINDOW_SEC
  <2> QED
    BY <2>1
<1>12. n \in S /\ Cardinality(F) >= k
         <=> n \in last /\ Cardinality(last) = k /\ Min(last) \in F
  <2>1. F \in SUBSET S
    OBVIOUS
  <2> HIDE DEF F, k, seconds
  <2> QED
    BY <1>2, <1>3, <1>5, <1>10, <1>11, <2>1, FullWindow
<1>13. n \in last => (Min(last) \in F <=> Ts(n) - Ts(Min(last)) <= seconds)
  <2>1. ASSUME n \in last PROVE Min(last) \in S
    <3>1. last \in SUBSET Nat /\ last \in SUBSET S
      <4>1. last \in SUBSET S
        BY DEF LastOf
      <4> HIDE DEF last
      <4> QED
        BY <1>5, <4>1
    <3> HIDE DEF last
    <3>2. \E x \in last : \A y \in last : x <= y
      BY <2>1, <3>1, LeastExists
    <3> QED
      BY <3>1, <3>2 DEF Min
  <2> HIDE DEF last
  <2> QED
    BY <2>1
<1> HIDE DEF F, last
<1> QED
  BY <1>3, <1>7, <1>8, <1>9, <1>12, <1>13 DEF since
-----------------------------------------------------------------------------
(***************************************************************************)
(* The rules of the windows report exactly what they should, for all       *)
(* thresholds, all entries, any number of users and devices and logs of    *)
(* every length.                                                           *)
(***************************************************************************)
(* Rule 1 reports every group of failed logins that fits in five minutes,  *)
(* once, and nothing else.                                                 *)
THEOREM BruteForceIsExact == Spec => []BruteForceExact
<1>1. /\ \A i : CountedAt("BRUTE_FORCE", log, i) <=> Is(log[i], "FAILED_LOGIN")
      /\ Capacity("BRUTE_FORCE") = BRUTE_FORCE_THRESHOLD
      /\ Seconds("BRUTE_FORCE") = BRUTE_FORCE_WINDOW_SEC
  BY DEF CountedAt, Capacity, Seconds
<1>2. TypeOK /\ WindowInv => BruteForceExact
  <2>1. TypeOK /\ WindowInv =>
          FiresOnFullWindow("BRUTE_FORCE", "FAILED_LOGIN", Capacity("BRUTE_FORCE"), Seconds("BRUTE_FORCE"))
    BY <1>1, FullWindowFollows
  <2> QED
    BY <1>1, <2>1 DEF BruteForceExact
<1> QED
  BY <1>2, WindowsKept, PTL

(* Rule 9 reports every group of logins that fits in ten minutes, once,    *)
(* and nothing else.                                                       *)
THEOREM RapidSessionIsExact == Spec => []RapidSessionExact
<1>1. /\ \A i : CountedAt("RAPID_SESSION", log, i) <=> Is(log[i], "LOGIN")
      /\ Capacity("RAPID_SESSION") = RAPID_SESSION_THRESHOLD
      /\ Seconds("RAPID_SESSION") = RAPID_SESSION_WINDOW_SEC
  BY DEF CountedAt, Capacity, Seconds
<1>2. TypeOK /\ WindowInv => RapidSessionExact
  <2>1. TypeOK /\ WindowInv =>
          FiresOnFullWindow("RAPID_SESSION", "LOGIN", Capacity("RAPID_SESSION"), Seconds("RAPID_SESSION"))
    BY <1>1, FullWindowFollows
  <2> QED
    BY <1>1, <2>1 DEF RapidSessionExact
<1> QED
  BY <1>2, WindowsKept, PTL

(* Rule 2 reports a login exactly when it and the logins before it since   *)
(* the last report are all from different devices and fit in ten minutes.  *)
THEOREM DeviceHoppingIsExact == Spec => []DeviceHoppingExact
<1>1. TypeOK /\ WindowInv => DeviceHoppingExact
  BY DeviceHoppingFollows
<1> QED
  BY <1>1, WindowsKept, PTL

(* Rule 3 reports an access exactly when it and the accesses before it on  *)
(* the device, in the order they are processed, are all to different       *)
(* resources and fit in five minutes.                                      *)
THEOREM ResourceScanIsExact == Spec => []ResourceScanExact
<1>1. TypeOK /\ WindowInv => ResourceScanExact
  BY ResourceScanFollows
<1> QED
  BY <1>1, WindowsKept, PTL

(* Rule 6 reports exactly the changes of country that fill the window      *)
(* within 48 hours and lead to enough countries.                           *)
THEOREM MultiCountryIsExact == Spec => []MultiCountryExact
<1>1. TypeOK /\ WindowInv => MultiCountryExact
  BY MultiCountryFollows
<1> QED
  BY <1>1, WindowsKept, PTL

(* Rule 12 reports, once per user, exactly the first night download that   *)
(* makes the last ones cover enough resources within ten minutes.          *)
THEOREM ExfiltrationIsExact == Spec => []ExfiltrationExact
<1>1. TypeOK /\ WindowInv => ExfiltrationExact
  BY ExfiltrationFollows
<1> QED
  BY <1>1, WindowsKept, PTL

(* Rule 13 reports, once per device, exactly the first login that makes    *)
(* the last ones on it those of enough users within five minutes.          *)
THEOREM SharedDeviceIsExact == Spec => []SharedDeviceExact
<1>1. TypeOK /\ WindowInv => SharedDeviceExact
  BY SharedDeviceFollows
<1> QED
  BY <1>1, WindowsKept, PTL

(* Rule 14 reports, once per user, exactly the first event that makes the  *)
(* last ones cover enough apps within two minutes.                         *)
THEOREM LateralMovementIsExact == Spec => []LateralMovementExact
<1>1. TypeOK /\ WindowInv => LateralMovementExact
  BY LateralMovementFollows
<1> QED
  BY <1>1, WindowsKept, PTL
-----------------------------------------------------------------------------
(***************************************************************************)
(* The four rules that go by counters and not by windows: rules 7, 8, 10   *)
(* and 11.  The invariant relates the counters to the user's history in    *)
(* the log: the failed logins that end it, the open session and its        *)
(* dangerous actions, the last awakening and what came since.              *)
(***************************************************************************)
(* The positions up to b of the user of x in the log l. *)
UserPositions(l, b, x) == {i \in 1 .. b : l[i].userId = x.userId}

(* Those at the end that are all failed logins. *)
Trailing(l, b, x) ==
    {i \in UserPositions(l, b, x) :
        \A j \in UserPositions(l, b, x) : i <= j => Is(l[j], "FAILED_LOGIN")}

(* The session opened at s is open after position b. *)
IsSession(l, R, b, x, s) ==
    /\ s \in UserPositions(l, b, x)
    /\ Is(l[s], "LOGIN")
    /\ \A j \in UserPositions(l, b, x) :
          j > s => ~Is(l[j], "LOGIN") /\ ~Is(l[j], "LOGOUT") /\ ~RaisedIn(R, "LONG_OPEN", j)

(* The dangerous actions that session has made since the last chain. *)
Chain(l, R, b, x, s) ==
    {i \in UserPositions(l, b, x) :
        /\ i > s /\ IsDangerous(l[i])
        /\ \A r \in UserPositions(l, b, x) : RaisedIn(R, "DANGER_CHAIN", r) => r < i}

(* Position b is the last one before w of the user of w. *)
LastBefore(l, b, w) ==
    l[b].userId = l[w].userId /\ \A k \in b + 1 .. w - 1 : l[k].userId # l[w].userId

(* Position w ends a long silence of its user. *)
Wakes(l, w) ==
    \E b \in 1 .. w - 1 : /\ LastBefore(l, b, w)
                          /\ l[w].timestamp - l[b].timestamp > DORMANT_THRESHOLD_SEC

(* The positions of the user of x from w on. *)
From(l, b, x, w) == {i \in UserPositions(l, b, x) : i >= w}

(* One event more adds its position to those of its user, and none to     *)
(* those of another.                                                       *)
LEMMA UserPositionsGrow ==
    ASSUME NEW l, NEW R, NEW m, NEW Q, NEW e, Grows(l, R, m, Q, e), NEW x
    PROVE  /\ Len(l) \in Nat /\ Len(m) = Len(l) + 1 /\ m[Len(m)] = e
           /\ \A i \in 1 .. Len(l) : m[i] = l[i] /\ l[i] \in Entries
           /\ \A rule \in Rules, i \in 1 .. Len(l) : RaisedIn(Q, rule, i) <=> RaisedIn(R, rule, i)
           /\ \A b \in 0 .. Len(l) : /\ UserPositions(m, b, x) = UserPositions(l, b, x)
                                     /\ UserPositions(l, b, x) \in SUBSET (1 .. Len(l))
           /\ e.userId = x.userId =>
                 UserPositions(m, Len(m), x) = UserPositions(l, Len(l), x) \cup {Len(m)}
           /\ e.userId # x.userId => UserPositions(m, Len(m), x) = UserPositions(l, Len(l), x)
<1>1. /\ Len(l) \in Nat /\ Len(m) = Len(l) + 1 /\ m[Len(m)] = e
      /\ \A i \in 1 .. Len(l) : m[i] = l[i] /\ l[i] \in Entries
      /\ \A rule \in Rules, i \in 1 .. Len(l) : RaisedIn(Q, rule, i) <=> RaisedIn(R, rule, i)
  BY DEF Grows
<1>2. ASSUME NEW b \in 0 .. Len(l)
      PROVE  /\ UserPositions(m, b, x) = UserPositions(l, b, x)
             /\ UserPositions(l, b, x) \in SUBSET (1 .. Len(l))
  <2>1. \A i \in 1 .. b : i \in 1 .. Len(l) /\ m[i] = l[i]
    BY <1>1
  <2> QED
    BY <2>1 DEF UserPositions
<1>3. \A i : i \in UserPositions(m, Len(m), x) <=>
         i \in UserPositions(l, Len(l), x) \/ (i = Len(m) /\ e.userId = x.userId)
  <2>1. \A i : i \in 1 .. Len(m) <=> i = Len(m) \/ i \in 1 .. Len(l)
    BY <1>1
  <2> QED
    BY <1>1, <2>1 DEF UserPositions
<1>4. /\ e.userId = x.userId =>
            UserPositions(m, Len(m), x) = UserPositions(l, Len(l), x) \cup {Len(m)}
      /\ e.userId # x.userId => UserPositions(m, Len(m), x) = UserPositions(l, Len(l), x)
  BY <1>3
<1> QED
  BY <1>1, <1>2, <1>4

(* The positions of a user are finitely many.                              *)
LEMMA UserPositionsType ==
    ASSUME NEW l, NEW b \in Nat, NEW x
    PROVE  /\ UserPositions(l, b, x) \in SUBSET (1 .. b)
           /\ IsFiniteSet(UserPositions(l, b, x))
           /\ \A S \in SUBSET UserPositions(l, b, x) : IsFiniteSet(S) /\ Cardinality(S) \in Nat
<1>1. UserPositions(l, b, x) \in SUBSET (1 .. b)
  BY DEF UserPositions
<1>2. IsFiniteSet(1 .. b)
  BY FS_Interval
<1>3. IsFiniteSet(UserPositions(l, b, x))
  BY <1>1, <1>2, FS_Subset
<1>4. \A S \in SUBSET UserPositions(l, b, x) : IsFiniteSet(S) /\ Cardinality(S) \in Nat
  BY <1>3, FS_Subset, FS_CardinalityType
<1> QED
  BY <1>1, <1>3, <1>4

(* What is read off a part of the log that an event leaves alone, or off   *)
(* the whole log for another user, stays.                                  *)
LEMMA HistoryStays ==
    ASSUME NEW l, NEW R, NEW m, NEW Q, NEW e, Grows(l, R, m, Q, e), NEW x,
           NEW a \in 0 .. Len(m), NEW b \in 0 .. Len(l),
           a = b \/ (a = Len(m) /\ b = Len(l) /\ e.userId # x.userId)
    PROVE  /\ UserPositions(m, a, x) = UserPositions(l, b, x)
           /\ Trailing(m, a, x) = Trailing(l, b, x)
           /\ \A s : /\ IsSession(m, Q, a, x, s) <=> IsSession(l, R, b, x, s)
                     /\ Chain(m, Q, a, x, s) = Chain(l, R, b, x, s)
                     /\ From(m, a, x, s) = From(l, b, x, s)
<1> DEFINE P == UserPositions(l, b, x)
<1>1. UserPositions(m, a, x) = P /\ P \in SUBSET (1 .. Len(l))
  <2>1. UserPositions(m, b, x) = P /\ P \in SUBSET (1 .. Len(l))
    BY UserPositionsGrow
  <2>2. e.userId # x.userId => UserPositions(m, Len(m), x) = UserPositions(l, Len(l), x)
    BY UserPositionsGrow
  <2> QED
    BY <2>1, <2>2
<1>2. \A i \in 1 .. Len(l) : m[i] = l[i]
  BY UserPositionsGrow
<1>3. \A i \in P : m[i] = l[i]
  BY <1>1, <1>2
<1>4. \A i \in P : /\ RaisedIn(Q, "LONG_OPEN", i) <=> RaisedIn(R, "LONG_OPEN", i)
                   /\ RaisedIn(Q, "DANGER_CHAIN", i) <=> RaisedIn(R, "DANGER_CHAIN", i)
  <2>1. "LONG_OPEN" \in Rules /\ "DANGER_CHAIN" \in Rules
    BY DEF Rules, LongSessionRules
  <2>2. \A rule \in Rules, i \in 1 .. Len(l) : RaisedIn(Q, rule, i) <=> RaisedIn(R, rule, i)
    BY UserPositionsGrow
  <2> QED
    BY <1>1, <2>1, <2>2
<1> HIDE DEF P
<1>5. Trailing(m, a, x) = Trailing(l, b, x)
  BY <1>1, <1>3 DEF Trailing, P
<1>6. ASSUME NEW s
      PROVE  IsSession(m, Q, a, x, s) <=> IsSession(l, R, b, x, s)
  BY <1>1, <1>3, <1>4 DEF IsSession, P
<1>7. ASSUME NEW s
      PROVE  Chain(m, Q, a, x, s) = Chain(l, R, b, x, s)
  BY <1>1, <1>3, <1>4 DEF Chain, P
<1>8. ASSUME NEW s
      PROVE  From(m, a, x, s) = From(l, b, x, s)
  BY <1>1 DEF From, P
<1> QED
  BY <1>1, <1>5, <1>6, <1>7, <1>8 DEF P

(* An awakening of the past stays one.                                     *)
LEMMA WakesStays ==
    ASSUME NEW l, NEW R, NEW m, NEW Q, NEW e, Grows(l, R, m, Q, e), NEW w \in 1 .. Len(l)
    PROVE  Wakes(m, w) <=> Wakes(l, w)
<1>1. /\ m[w] = l[w]
      /\ \A b \in 1 .. w - 1 : m[b] = l[b] /\ \A k \in b + 1 .. w - 1 : m[k] = l[k]
  <2>1. \A b \in 1 .. w - 1 : b \in 1 .. Len(l) /\ \A k \in b + 1 .. w - 1 : k \in 1 .. Len(l)
    BY UserPositionsGrow
  <2>2. \A i \in 1 .. Len(l) : m[i] = l[i]
    BY UserPositionsGrow
  <2> QED
    BY <2>1, <2>2
<1> QED
  BY <1>1 DEF Wakes, LastBefore

-----------------------------------------------------------------------------
(* What the counter of rule 10 counts. *)
CountsFailures(u, l, x) ==
    u.consecutiveFailedCount = Cardinality(Trailing(l, Len(l), x))

(* Rule 10 is raised at n where it should be. *)
SuccessDue(l, R, n) ==
    RaisedIn(R, "BRUTE_FORCE_SUCCESS", n) <=>
        /\ Is(l[n], "LOGIN")
        /\ Cardinality(Trailing(l, n - 1, l[n])) >= BRUTE_FORCE_THRESHOLD

(* What the context keeps of the session. *)
KeepsSession(u, l, R, x) ==
    /\ ~u.hasActiveSession => \A s : ~IsSession(l, R, Len(l), x, s)
    /\ u.hasActiveSession =>
          \E s : /\ IsSession(l, R, Len(l), x, s)
                 /\ u.sessionStartTimestamp = l[s].timestamp
                 /\ u.dangerousActionCount = Cardinality(Chain(l, R, Len(l), x, s))

(* Rule 7 is raised at n for an open session where it should be, *)
OpenDue(l, R, n) ==
    RaisedIn(R, "LONG_OPEN", n) \/ RaisedIn(R, "LONG_OVERRIDDEN", n) <=>
        \E s : /\ IsSession(l, R, n - 1, l[n], s)
               /\ l[n].timestamp - l[s].timestamp > MAX_SESSION_DURATION_SEC

(* and so is rule 8. *)
ChainDue(l, R, n) ==
    RaisedIn(R, "DANGER_CHAIN", n) <=>
        /\ IsDangerous(l[n])
        /\ \E s : /\ IsSession(l, R, n - 1, l[n], s)
                  /\ Cardinality(Chain(l, R, n - 1, l[n], s)) + 1 = DANGER_CHAIN_THRESHOLD

(* consecutiveFailedCount counts on with a failed login and starts anew    *)
(* with any other event.                                                   *)
LEMMA FailuresStep ==
    ASSUME NEW l, NEW R, NEW m, NEW Q, NEW e \in Entries, Grows(l, R, m, Q, e),
           NEW u \in UserContext, CountsFailures(u, l, e)
    PROVE  CountsFailures(UserAfter(u, e), m, e)
<1> DEFINE n == Len(m)
           P == UserPositions(l, Len(l), e)
           F == Trailing(l, Len(l), e)
           G == Trailing(m, n, e)
<1>1. /\ Len(l) \in Nat /\ n = Len(l) + 1 /\ m[n] = e
      /\ \A i \in 1 .. Len(l) : m[i] = l[i]
      /\ UserPositions(m, n, e) = P \cup {n} /\ P \in SUBSET (1 .. Len(l))
  BY UserPositionsGrow
<1>2. F \in SUBSET P /\ \A i \in P : m[i] = l[i] /\ i <= n /\ i # n /\ ~(n <= i)
  <2>1. \A i \in 1 .. Len(l) : i <= n /\ i # n /\ ~(n <= i)
    BY <1>1
  <2> QED
    BY <1>1, <2>1 DEF Trailing
<1>3. IsFiniteSet(F) /\ Cardinality(F) \in Nat
  BY <1>1, <1>2, UserPositionsType
<1>4. (UserAfter(u, e)).consecutiveFailedCount = FailedInARow(u, e)
  BY DEF UserAfter
<1>5. CASE Is(e, "FAILED_LOGIN")
  <2>1. G = F \cup {n} /\ n \notin F
    <3>1. n <= n
      BY <1>1
    <3> HIDE DEF n, P
    <3>2. \A i : i \in G <=> i \in F \/ i = n
      BY <1>1, <1>2, <1>5, <3>1 DEF Trailing, P
    <3>3. n \notin F
      BY <1>2
    <3> HIDE DEF F, G
    <3> QED
      BY <3>2, <3>3
  <2> HIDE DEF F, G, n
  <2>2. Cardinality(G) = Cardinality(F) + 1
    BY <1>3, <2>1, FS_AddElement
  <2> QED
    BY <1>4, <1>5, <2>2 DEF CountsFailures, FailedInARow, F, G, n
<1>6. CASE ~Is(e, "FAILED_LOGIN")
  <2>1. G = {}
    <3> HIDE DEF n, P
    <3> QED
      BY <1>1, <1>2, <1>6 DEF Trailing, P
  <2>2. Cardinality(G) = 0
    BY <2>1, FS_EmptySet
  <2> QED
    BY <1>4, <1>6, <2>2 DEF CountsFailures, FailedInARow
<1> QED
  BY <1>5, <1>6

(* The session and its dangerous actions after one event: a LOGIN opens    *)
(* one, a LOGOUT or a report of its length closes it, and a report of a    *)
(* chain starts the count anew.                                            *)
LEMMA SessionStep ==
    ASSUME NEW l, NEW R, NEW m, NEW Q, NEW e \in Entries, Grows(l, R, m, Q, e),
           NEW u \in UserContext, KeepsSession(u, l, R, e),
           RaisedIn(Q, "LONG_OPEN", Len(m)) <=> LongOpen(u, e),
           RaisedIn(Q, "DANGER_CHAIN", Len(m)) <=> DangerChain(u, e)
    PROVE  KeepsSession(UserAfter(u, e), m, Q, e)
<1> DEFINE n == Len(m)
           P == UserPositions(l, Len(l), e)
           v == UserAfter(u, e)
<1>1. /\ Len(l) \in Nat /\ n = Len(l) + 1 /\ m[n] = e
      /\ \A i \in 1 .. Len(l) : m[i] = l[i]
      /\ UserPositions(m, n, e) = P \cup {n} /\ P \in SUBSET (1 .. Len(l))
  BY UserPositionsGrow
<1>2. \A i \in P : m[i] = l[i] /\ i # n /\ n > i /\ ~(i > n) /\ ~(n < i)
  <2>1. \A i \in 1 .. Len(l) : i # n /\ n > i /\ ~(i > n) /\ ~(n < i)
    BY <1>1
  <2> QED
    BY <1>1, <2>1
<1>3. \A i \in P : /\ RaisedIn(Q, "LONG_OPEN", i) <=> RaisedIn(R, "LONG_OPEN", i)
                   /\ RaisedIn(Q, "DANGER_CHAIN", i) <=> RaisedIn(R, "DANGER_CHAIN", i)
  <2>1. "LONG_OPEN" \in Rules /\ "DANGER_CHAIN" \in Rules
    BY DEF Rules, LongSessionRules
  <2>2. \A rule \in Rules, i \in 1 .. Len(l) : RaisedIn(Q, rule, i) <=> RaisedIn(R, rule, i)
    BY UserPositionsGrow
  <2> QED
    BY <1>1, <2>1, <2>2
<1>4. /\ v.hasActiveSession <=> SessionAfter(u, e)
      /\ v.sessionStartTimestamp = IF Is(e, "LOGIN") THEN e.timestamp ELSE u.sessionStartTimestamp
      /\ v.dangerousActionCount = DangerousActions(u, e)
  BY DEF UserAfter
<1>5. ~(n > n) /\ n \in Nat
  BY <1>1
<1> HIDE DEF n, P, v
<1>6. CASE Is(e, "LOGIN")
  <2>1. ~Is(e, "LOGOUT") /\ ~LongOpen(u, e) /\ SessionAfter(u, e) /\ DangerousActions(u, e) = 0
    BY <1>6 DEF Is, LongOpen, SessionAfter, OpenSession, DangerousActions
  <2>2. IsSession(m, Q, n, e, n)
    BY <1>1, <1>2, <1>5, <1>6 DEF IsSession
  <2>3. Chain(m, Q, n, e, n) = {}
    BY <1>1, <1>2, <1>5 DEF Chain
  <2>4. Cardinality(Chain(m, Q, n, e, n)) = 0
    BY <2>3, FS_EmptySet
  <2>5. v.hasActiveSession /\ v.sessionStartTimestamp = m[n].timestamp
          /\ v.dangerousActionCount = Cardinality(Chain(m, Q, n, e, n))
    BY <1>1, <1>4, <1>6, <2>1, <2>4
  <2> QED
    BY <2>2, <2>5 DEF KeepsSession, n, v
<1>7. CASE ~Is(e, "LOGIN")
  <2>1. /\ SessionAfter(u, e) <=> u.hasActiveSession /\ ~LongOpen(u, e) /\ ~Is(e, "LOGOUT")
        /\ RaisedIn(Q, "LONG_OPEN", n) <=> LongOpen(u, e)
        /\ RaisedIn(Q, "DANGER_CHAIN", n) <=> DangerChain(u, e)
    BY <1>7 DEF SessionAfter, OpenSession, n
  <2>2. ASSUME NEW s
        PROVE  IsSession(m, Q, n, e, s) <=>
                 IsSession(l, R, Len(l), e, s) /\ ~LongOpen(u, e) /\ ~Is(e, "LOGOUT")
    BY <1>1, <1>2, <1>3, <1>7, <2>1 DEF IsSession, P
  <2>3. CASE ~SessionAfter(u, e)
    <3>1. \A s : ~IsSession(m, Q, n, e, s)
      BY <2>1, <2>2, <2>3 DEF KeepsSession
    <3> QED
      BY <1>4, <2>3, <3>1 DEF KeepsSession, n, v
  <2>4. CASE SessionAfter(u, e)
    <3>1. PICK s : /\ IsSession(l, R, Len(l), e, s)
                   /\ u.sessionStartTimestamp = l[s].timestamp
                   /\ u.dangerousActionCount = Cardinality(Chain(l, R, Len(l), e, s))
      BY <2>1, <2>4 DEF KeepsSession
    <3> DEFINE F == Chain(l, R, Len(l), e, s)
               G == Chain(m, Q, n, e, s)
    <3>2. s \in P /\ m[s] = l[s] /\ n > s
      BY <1>2, <3>1 DEF IsSession, P
    <3>3. F \in SUBSET P
      BY DEF Chain, P
    <3>4. IsFiniteSet(F) /\ Cardinality(F) \in Nat
      BY <1>1, <3>3, UserPositionsType DEF P
    <3>5. /\ DangerChain(u, e) => G = {}
          /\ ~DangerChain(u, e) /\ IsDangerous(e) => G = F \cup {n}
          /\ ~DangerChain(u, e) /\ ~IsDangerous(e) => G = F
      <4>1. \A i : i \in G <=> /\ i \in P \cup {n} /\ i > s /\ IsDangerous(m[i])
                               /\ \A r \in P \cup {n} : RaisedIn(Q, "DANGER_CHAIN", r) => r < i
        BY <1>1 DEF Chain
      <4>2. \A i : i \in F <=> /\ i \in P /\ i > s /\ IsDangerous(l[i])
                               /\ \A r \in P : RaisedIn(R, "DANGER_CHAIN", r) => r < i
        BY DEF Chain, P
      <4>3. ~(n < n) /\ \A r \in P : r < n
        BY <1>2, <1>5, <1>1
      <4> HIDE DEF F, G
      <4>4. DangerChain(u, e) => \A i : i \notin G
        BY <1>2, <2>1, <4>1, <4>3
      <4>5. ~DangerChain(u, e) => \A i : i \in G <=> i \in F \/ (i = n /\ IsDangerous(e))
        BY <1>1, <1>2, <1>3, <2>1, <3>2, <4>1, <4>2, <4>3
      <4> QED
        BY <4>4, <4>5
    <3>6. n \notin F
      BY <1>2, <3>3
    <3> HIDE DEF F, G
    <3>7. Cardinality(G) = DangerousActions(u, e)
      <4>1. Counts(u, e) <=> IsDangerous(e)
        BY <2>1, <2>4 DEF Counts
      <4>2. CASE DangerChain(u, e)
        <5>1. Cardinality(G) = 0
          BY <3>5, <4>2, FS_EmptySet
        <5> QED
          BY <4>2, <5>1 DEF DangerousActions
      <4>3. CASE ~DangerChain(u, e) /\ IsDangerous(e)
        <5>1. Cardinality(G) = Cardinality(F) + 1
          BY <3>4, <3>5, <3>6, <4>3, FS_AddElement
        <5> QED
          BY <1>7, <3>1, <4>1, <4>3, <5>1 DEF DangerousActions, F
      <4>4. CASE ~DangerChain(u, e) /\ ~IsDangerous(e)
        BY <1>7, <3>1, <3>5, <4>1, <4>4 DEF DangerousActions, F
      <4> QED
        BY <4>2, <4>3, <4>4
    <3>8. /\ IsSession(m, Q, n, e, s)
          /\ v.sessionStartTimestamp = m[s].timestamp
          /\ v.dangerousActionCount = Cardinality(G)
      BY <1>4, <1>7, <2>1, <2>2, <2>4, <3>1, <3>2, <3>7
    <3> QED
      BY <1>4, <2>4, <3>8 DEF KeepsSession, n, v, G
  <2> QED
    BY <2>3, <2>4
<1> QED
  BY <1>6, <1>7

-----------------------------------------------------------------------------
(* What the context keeps of the last awakening. *)
KeepsBurst(u, l, x) ==
    LET P == UserPositions(l, Len(l), x)
    IN  /\ u.wasLongDormant =>
              \E w \in P : /\ Wakes(l, w)
                           /\ \A v \in P : v > w => ~Wakes(l, v)
                           /\ u.dormantWakeupTimestamp = l[w].timestamp
                           /\ u.burstEventCount = Cardinality(From(l, Len(l), x, w))
        /\ ~u.wasLongDormant =>
              \A w \in P : Wakes(l, w) =>
                  \E i \in P : l[i].timestamp - l[w].timestamp > DORMANT_BURST_WINDOW_SEC

(* Rule 11 is raised at n where it should be. *)
BurstAt(l, n) ==
    \E w \in UserPositions(l, n, l[n]) :
        /\ Wakes(l, w)
        /\ l[n].timestamp - l[w].timestamp <= DORMANT_BURST_WINDOW_SEC
        /\ Cardinality(From(l, n, l[n], w)) = DORMANT_BURST_THRESHOLD

(* The code sees an awakening where the log has one.                       *)
LEMMA WakesAgree ==
    ASSUME NEW l, NEW R, NEW m, NEW Q, NEW e, Grows(l, R, m, Q, e),
           NEW u \in UserContext, Remembers(u, l, e)
    PROVE  WakesUp(u, e) <=> Wakes(m, Len(m))
<1> DEFINE n == Len(m)
<1>1. Len(l) \in Nat /\ n = Len(l) + 1 /\ n - 1 = Len(l) /\ m[n] = e
      /\ \A i \in 1 .. Len(l) : m[i] = l[i]
  BY DEF Grows
<1>2. \A j \in 1 .. Len(l) : \A k \in j + 1 .. Len(l) : k \in 1 .. Len(l)
  BY <1>1
<1> HIDE DEF n
<1>3. Wakes(m, n) <=> \E j \in 1 .. Len(l) :
                        /\ LastEntryAt(l, j, e)
                        /\ e.timestamp - l[j].timestamp > DORMANT_THRESHOLD_SEC
  BY <1>1, <1>2 DEF Wakes, LastBefore, LastEntryAt
<1>4. CASE ~u.hasActivity
  BY <1>3, <1>4 DEF WakesUp, Remembers, LastEntryAt, n
<1>5. CASE u.hasActivity
  <2>1. PICK j \in 1 .. Len(l) : LastEntryAt(l, j, e) /\ u.lastActivityTimestamp = l[j].timestamp
    BY <1>5 DEF Remembers
  <2>2. ASSUME NEW i \in 1 .. Len(l), LastEntryAt(l, i, e)
        PROVE  i = j
    <3>1. i < j => j \in i + 1 .. Len(l)
      BY <1>1
    <3>2. j < i => i \in j + 1 .. Len(l)
      BY <1>1
    <3>3. ~(i < j) /\ ~(j < i)
      BY <2>1, <2>2, <3>1, <3>2 DEF LastEntryAt
    <3> QED
      BY <1>1, <3>3
  <2> QED
    BY <1>3, <1>5, <2>1, <2>2 DEF WakesUp, n
<1> QED
  BY <1>4, <1>5

(* An awakening comes long after all earlier entries of its user. *)
LEMMA SilenceBefore ==
    ASSUME NEW l \in Seq(Entries), Sorted(l), NEW w \in 1 .. Len(l), Wakes(l, w),
           NEW v \in 1 .. w - 1, l[v].userId = l[w].userId
    PROVE  l[w].timestamp - l[v].timestamp > DORMANT_BURST_WINDOW_SEC
<1>1. PICK b \in 1 .. w - 1 : LastBefore(l, b, w)
                              /\ l[w].timestamp - l[b].timestamp > DORMANT_THRESHOLD_SEC
  BY DEF Wakes
<1>2. v \in 1 .. Len(l) /\ b \in 1 .. Len(l)
  OBVIOUS
<1>3. v = b \/ v < b
  <2>1. b < v => v \in b + 1 .. w - 1
    OBVIOUS
  <2> QED
    BY <1>1, <2>1 DEF LastBefore
<1>4. l[v].timestamp \in Nat /\ l[b].timestamp \in Nat /\ l[w].timestamp \in Nat
  BY <1>2, EntryFields
<1>5. l[v].timestamp <= l[b].timestamp
  BY <1>1, <1>2, <1>3, <1>4 DEF Sorted, LastBefore
<1> QED
  BY <1>1, <1>4, <1>5 DEF DORMANT_BURST_WINDOW_SEC, DORMANT_THRESHOLD_SEC

(* The burst after one event: an awakening starts it, an event more than   *)
(* ten minutes after the awakening ends it, and rule 11 fires where the    *)
(* count of the last awakening reaches the threshold.                      *)
LEMMA BurstStep ==
    ASSUME NEW l, NEW R, NEW m, NEW Q, NEW e \in Entries, Grows(l, R, m, Q, e),
           NEW u \in UserContext, Remembers(u, l, e), Sorted(m), KeepsBurst(u, l, e)
    PROVE  /\ KeepsBurst(UserAfter(u, e), m, e)
           /\ DormantAccount(u, e) <=> BurstAt(m, Len(m))
<1> DEFINE n == Len(m)
           P == UserPositions(l, Len(l), e)
           v == UserAfter(u, e)
           W == DORMANT_BURST_WINDOW_SEC
           T == DORMANT_BURST_THRESHOLD
           H(w) == From(m, n, e, w)
<1>1. /\ Len(l) \in Nat /\ n = Len(l) + 1 /\ m[n] = e
      /\ \A i \in 1 .. Len(l) : m[i] = l[i]
      /\ UserPositions(m, n, e) = P \cup {n} /\ P \in SUBSET (1 .. Len(l))
  BY UserPositionsGrow
<1>2. /\ n \in Nat /\ n \in 1 .. Len(m) /\ ~(n > n) /\ n >= n /\ m \in Seq(Entries)
      /\ W \in Nat /\ T \in Nat
  BY <1>1, ThresholdAssumption DEF Grows, DORMANT_BURST_WINDOW_SEC
<1>3. \A i \in P : /\ m[i] = l[i] /\ i \in 1 .. Len(m) /\ i \in 1 .. n - 1 /\ i \in Nat
                   /\ i # n /\ n > i /\ ~(i > n) /\ n >= i /\ ~(i >= n)
                   /\ m[i].userId = e.userId
  <2>1. \A i \in 1 .. Len(l) : /\ i \in 1 .. Len(m) /\ i \in 1 .. n - 1 /\ i \in Nat
                               /\ i # n /\ n > i /\ ~(i > n) /\ n >= i /\ ~(i >= n)
    BY <1>1
  <2>2. \A i \in P : l[i].userId = e.userId
    BY DEF UserPositions
  <2> QED
    BY <1>1, <2>1, <2>2
<1>4. \A i \in P : Wakes(m, i) <=> Wakes(l, i)
  BY <1>1, WakesStays
<1>5. WakesUp(u, e) <=> Wakes(m, n)
  BY WakesAgree
<1>6. /\ v.wasLongDormant <=> InBurst(u, e)
      /\ v.burstEventCount = BurstEvents(u, e)
      /\ v.dormantWakeupTimestamp = WakeupTimestamp(u, e)
  BY DEF UserAfter
<1>7. \A i \in P : m[i].timestamp \in Nat /\ m[i].timestamp <= e.timestamp
  <2>1. \A i \in 1 .. Len(m) : m[i].timestamp \in Nat
    BY <1>2, EntryFields
  <2> HIDE DEF n, P
  <2>2. ASSUME NEW i \in P PROVE m[i].timestamp <= m[n].timestamp
    <3>1. i < n /\ m[i].userId = m[n].userId /\ i \in 1 .. Len(m)
      BY <1>1, <1>3
    <3> QED
      BY <1>2, <3>1 DEF Sorted
  <2> QED
    BY <1>1, <1>3, <2>1, <2>2
<1>8. e.timestamp \in Nat
  BY EntryFields
<1>9. \A i \in P, w \in P : Wakes(m, w) /\ i < w => m[w].timestamp - m[i].timestamp > W
  <2> SUFFICES ASSUME NEW i \in P, NEW w \in P, Wakes(m, w), i < w
               PROVE  m[w].timestamp - m[i].timestamp > W
    OBVIOUS
  <2>1. i \in 1 .. w - 1 /\ w \in 1 .. Len(m) /\ m[i].userId = m[w].userId
    BY <1>3
  <2> QED
    BY <1>2, <2>1, SilenceBefore
<1>10. Wakes(m, n) => \A i \in P : e.timestamp - m[i].timestamp > W
  <2> SUFFICES ASSUME Wakes(m, n), NEW i \in P PROVE e.timestamp - m[i].timestamp > W
    OBVIOUS
  <2>1. i \in 1 .. n - 1 /\ m[i].userId = m[n].userId
    BY <1>1, <1>3
  <2>2. m[n].timestamp - m[i].timestamp > DORMANT_BURST_WINDOW_SEC
    BY <1>2, <2>1, SilenceBefore
  <2> QED
    BY <1>1, <2>2
<1>11. BurstAt(m, n) <=> \E w \in P \cup {n} : /\ Wakes(m, w)
                                               /\ e.timestamp - m[w].timestamp <= W
                                               /\ Cardinality(H(w)) = T
  BY <1>1 DEF BurstAt
<1>12. H(n) = {n}
  BY <1>1, <1>2, <1>3 DEF From
<1>13. \A w \in P : H(w) = From(l, Len(l), e, w) \cup {n} /\ n \notin From(l, Len(l), e, w)
  <2> SUFFICES ASSUME NEW w \in P
               PROVE  H(w) = From(l, Len(l), e, w) \cup {n} /\ n \notin From(l, Len(l), e, w)
    OBVIOUS
  <2>1. \A i : i \in H(w) <=> i \in P \cup {n} /\ i >= w
    BY <1>1 DEF From
  <2>2. \A i : i \in From(l, Len(l), e, w) <=> i \in P /\ i >= w
    BY DEF From
  <2> HIDE DEF H, P, n
  <2>3. \A i : i \in H(w) <=> i \in From(l, Len(l), e, w) \/ i = n
    BY <1>3, <2>1, <2>2
  <2>4. n \notin From(l, Len(l), e, w)
    BY <1>3, <2>2
  <2> QED
    BY <2>3, <2>4
<1>14. \A w \in P : Cardinality(H(w)) = Cardinality(From(l, Len(l), e, w)) + 1
  <2> SUFFICES ASSUME NEW w \in P
               PROVE  Cardinality(H(w)) = Cardinality(From(l, Len(l), e, w)) + 1
    OBVIOUS
  <2>1. IsFiniteSet(From(l, Len(l), e, w))
    <3>1. From(l, Len(l), e, w) \in SUBSET UserPositions(l, Len(l), e)
      BY DEF From
    <3> QED
      BY <1>1, <3>1, UserPositionsType
  <2>2. H(w) = From(l, Len(l), e, w) \cup {n} /\ n \notin From(l, Len(l), e, w)
    BY <1>13
  <2> HIDE DEF H, n
  <2> QED
    BY <2>1, <2>2, FS_AddElement
<1>15. Cardinality(H(n)) = 1
  BY <1>12, FS_Singleton
<1> HIDE DEF n, P, v, W, T, H
<1>16. CASE WakesUp(u, e)
  <2>1. InBurst(u, e) /\ BurstEvents(u, e) = 1 /\ WakeupTimestamp(u, e) = e.timestamp
    BY <1>2, <1>8, <1>16 DEF InBurst, BurstEvents, WakeupTimestamp, W
  <2>2. DormantAccount(u, e) <=> 1 = T
    BY <2>1 DEF DormantAccount, T
  <2>3. BurstAt(m, n) <=> 1 = T
    <3>1. e.timestamp - m[n].timestamp <= W
      BY <1>1, <1>2, <1>8
    <3>2. \A w \in P : ~(e.timestamp - m[w].timestamp <= W)
      BY <1>2, <1>5, <1>7, <1>8, <1>10, <1>16
    <3> QED
      BY <1>5, <1>11, <1>15, <1>16, <3>1, <3>2
  <2>4. KeepsBurst(v, m, e)
    <3>1. n \in UserPositions(m, n, e) /\ Wakes(m, n) /\ v.wasLongDormant
          /\ (\A i \in UserPositions(m, n, e) : i > n => ~Wakes(m, i))
          /\ v.dormantWakeupTimestamp = m[n].timestamp
          /\ v.burstEventCount = Cardinality(From(m, n, e, n))
      BY <1>1, <1>2, <1>3, <1>5, <1>6, <1>15, <1>16, <2>1 DEF H
    <3> QED
      BY <3>1 DEF KeepsBurst, n
  <2> QED
    BY <2>2, <2>3, <2>4 DEF n, v
<1>17. CASE ~WakesUp(u, e) /\ u.wasLongDormant
  <2>1. PICK w \in P : /\ Wakes(l, w)
                       /\ \A i \in P : i > w => ~Wakes(l, i)
                       /\ u.dormantWakeupTimestamp = l[w].timestamp
                       /\ u.burstEventCount = Cardinality(From(l, Len(l), e, w))
    BY <1>17 DEF KeepsBurst, P
  <2>2. m[w] = l[w] /\ Wakes(m, w) /\ m[w].timestamp \in Nat
    BY <1>3, <1>4, <1>7, <2>1
  <2>3. /\ InBurst(u, e) <=> e.timestamp - m[w].timestamp <= W
        /\ WakeupTimestamp(u, e) = m[w].timestamp
    BY <1>17, <2>1, <2>2 DEF InBurst, WakeupTimestamp, W
  <2>4. InBurst(u, e) => BurstEvents(u, e) = Cardinality(H(w))
    BY <1>14, <1>17, <2>1 DEF BurstEvents, UserContext
  <2>5. \A i \in P : Wakes(m, i) => i = w \/ i < w
    BY <1>3, <1>4, <2>1
  <2>6. \A i \in P : i < w => e.timestamp - m[i].timestamp > W
    <3> SUFFICES ASSUME NEW i \in P, i < w PROVE e.timestamp - m[i].timestamp > W
      OBVIOUS
    <3>1. m[w].timestamp - m[i].timestamp > W /\ m[w].timestamp <= e.timestamp
      BY <1>7, <1>9, <2>2
    <3> QED
      BY <1>2, <1>7, <1>8, <2>2, <3>1
  <2>7. DormantAccount(u, e) <=> BurstAt(m, n)
    <3>1. BurstAt(m, n) <=> e.timestamp - m[w].timestamp <= W /\ Cardinality(H(w)) = T
      <4>1. \A i \in P \cup {n} : Wakes(m, i) /\ e.timestamp - m[i].timestamp <= W => i = w
        <5>1. \A i \in P : i < w => ~(e.timestamp - m[i].timestamp <= W)
          BY <1>2, <1>7, <1>8, <2>6
        <5> QED
          BY <1>5, <1>17, <2>5, <5>1
      <4> QED
        BY <1>11, <2>2, <4>1
    <3> QED
      BY <2>3, <2>4, <3>1 DEF DormantAccount, T
  <2>8. CASE InBurst(u, e)
    <3>1. w \in UserPositions(m, n, e) /\ v.wasLongDormant
          /\ (\A i \in UserPositions(m, n, e) : i > w => ~Wakes(m, i))
          /\ v.dormantWakeupTimestamp = m[w].timestamp
          /\ v.burstEventCount = Cardinality(From(m, n, e, w))
      <4>1. \A i \in P : i > w => ~Wakes(m, i)
        BY <1>4, <2>1
      <4> QED
        BY <1>1, <1>5, <1>6, <1>17, <2>3, <2>4, <2>8, <4>1 DEF H
    <3>2. KeepsBurst(v, m, e)
      BY <2>2, <3>1 DEF KeepsBurst, n
    <3> QED
      BY <2>7, <3>2 DEF n, v
  <2>9. CASE ~InBurst(u, e)
    <3>1. e.timestamp - m[w].timestamp > W
      BY <1>2, <1>8, <2>2, <2>3, <2>9
    <3>2. \A i \in UserPositions(m, n, e) : Wakes(m, i) => e.timestamp - m[i].timestamp > W
      BY <1>1, <1>5, <1>17, <2>5, <2>6, <3>1
    <3>3. n \in UserPositions(m, n, e) /\ ~v.wasLongDormant
      BY <1>1, <1>6, <2>9
    <3>4. KeepsBurst(v, m, e)
      BY <1>1, <3>2, <3>3 DEF KeepsBurst, n, W
    <3> QED
      BY <2>7, <3>4 DEF n, v
  <2> QED
    BY <2>8, <2>9
<1>18. CASE ~WakesUp(u, e) /\ ~u.wasLongDormant
  <2>1. ~InBurst(u, e)
    BY <1>18 DEF InBurst
  <2>2. \A w \in P : Wakes(m, w) => e.timestamp - m[w].timestamp > W
    <3> SUFFICES ASSUME NEW w \in P, Wakes(m, w) PROVE e.timestamp - m[w].timestamp > W
      OBVIOUS
    <3>1. PICK i \in P : l[i].timestamp - l[w].timestamp > W
      BY <1>4, <1>18 DEF KeepsBurst, P, W
    <3>2. m[i].timestamp - m[w].timestamp > W
      BY <1>3, <3>1
    <3> QED
      BY <1>2, <1>7, <1>8, <3>2
  <2>3. ~DormantAccount(u, e)
    BY <2>1 DEF DormantAccount
  <2>4. ~BurstAt(m, n)
    <3>1. \A w \in P : Wakes(m, w) => ~(e.timestamp - m[w].timestamp <= W)
      BY <1>2, <1>7, <1>8, <2>2
    <3> QED
      BY <1>5, <1>11, <1>18, <3>1
  <2>5. KeepsBurst(v, m, e)
    <3>1. \A i \in UserPositions(m, n, e) : Wakes(m, i) => e.timestamp - m[i].timestamp > W
      BY <1>1, <1>5, <1>18, <2>2
    <3>2. n \in UserPositions(m, n, e) /\ ~v.wasLongDormant
      BY <1>1, <1>6, <2>1
    <3> QED
      BY <1>1, <3>1, <3>2 DEF KeepsBurst, n, W
  <2> QED
    BY <2>3, <2>4, <2>5 DEF n, v
<1> QED
  BY <1>16, <1>17, <1>18

-----------------------------------------------------------------------------
BurstDue(l, R, n) == RaisedIn(R, "DORMANT_ACCOUNT", n) <=> BurstAt(l, n)

(* The context u of the user of x keeps what rules 7, 8, 10 and 11 go by. *)
Keeps(u, l, R, x) == CountsFailures(u, l, x) /\ KeepsSession(u, l, R, x) /\ KeepsBurst(u, l, x)

(* Rules 7, 8, 10 and 11 are raised at n where they should be. *)
Due(l, R, n) == SuccessDue(l, R, n) /\ OpenDue(l, R, n) /\ ChainDue(l, R, n) /\ BurstDue(l, R, n)

AllKeep(U, l, R) == \A x \in Entries : Keeps(U[x.userId], l, R, x)
AllDue(l, R) == \A n \in 1 .. Len(l) : Due(l, R, n)

HistoryInv == AllKeep(userContexts, log, results) /\ AllDue(log, results)

(* Another user's context keeps it over an event, *)
LEMMA OthersKeep ==
    ASSUME NEW l, NEW R, NEW m, NEW Q, NEW e, Grows(l, R, m, Q, e), NEW x \in Entries,
           e.userId # x.userId, NEW u, Keeps(u, l, R, x)
    PROVE  Keeps(u, m, Q, x)
<1> DEFINE P == UserPositions(l, Len(l), x)
<1>1. Len(l) \in 0 .. Len(l) /\ Len(m) \in 0 .. Len(m)
  BY UserPositionsGrow
<1>2. /\ UserPositions(m, Len(m), x) = P
      /\ Trailing(m, Len(m), x) = Trailing(l, Len(l), x)
      /\ \A s : /\ IsSession(m, Q, Len(m), x, s) <=> IsSession(l, R, Len(l), x, s)
                /\ Chain(m, Q, Len(m), x, s) = Chain(l, R, Len(l), x, s)
                /\ From(m, Len(m), x, s) = From(l, Len(l), x, s)
  BY <1>1, HistoryStays
<1>3. \A i \in P : m[i] = l[i] /\ (Wakes(m, i) <=> Wakes(l, i))
  <2>1. \A i \in P : i \in 1 .. Len(l)
    BY DEF UserPositions
  <2>2. \A i \in 1 .. Len(l) : m[i] = l[i]
    BY UserPositionsGrow
  <2>3. \A i \in 1 .. Len(l) : Wakes(m, i) <=> Wakes(l, i)
    BY WakesStays
  <2> QED
    BY <2>1, <2>2, <2>3
<1>4. CountsFailures(u, m, x)
  BY <1>2 DEF Keeps, CountsFailures
<1>5. KeepsSession(u, m, Q, x)
  <2>1. \A s : IsSession(l, R, Len(l), x, s) => m[s] = l[s]
    BY <1>3 DEF IsSession
  <2> QED
    BY <1>2, <2>1 DEF Keeps, KeepsSession
<1>6. KeepsBurst(u, m, x)
  <2> HIDE DEF P
  <2> QED
    BY <1>2, <1>3 DEF Keeps, KeepsBurst, P
<1> QED
  BY <1>4, <1>5, <1>6 DEF Keeps

(* a context keeps it for every entry of its user, *)
LEMMA SameUserKeeps ==
    ASSUME NEW l, NEW R, NEW x, NEW y, x.userId = y.userId, NEW u, Keeps(u, l, R, y)
    PROVE  Keeps(u, l, R, x)
<1> DEFINE n == Len(l)
           P == UserPositions(l, n, y)
<1>1. UserPositions(l, n, x) = P
  BY DEF UserPositions
<1> HIDE DEF n, P
<1>2. Trailing(l, n, x) = Trailing(l, n, y)
  BY <1>1 DEF Trailing, P
<1>3. ASSUME NEW s
      PROVE  IsSession(l, R, n, x, s) <=> IsSession(l, R, n, y, s)
  BY <1>1 DEF IsSession, P
<1>4. ASSUME NEW s
      PROVE  Chain(l, R, n, x, s) = Chain(l, R, n, y, s)
  BY <1>1 DEF Chain, P
<1>5. ASSUME NEW s
      PROVE  From(l, n, x, s) = From(l, n, y, s)
  BY <1>1 DEF From, P
<1>6. CountsFailures(u, l, x)
  BY <1>2 DEF Keeps, CountsFailures, n
<1>7. KeepsSession(u, l, R, x)
  BY <1>3, <1>4 DEF Keeps, KeepsSession, n
<1>8. KeepsBurst(u, l, x)
  BY <1>1, <1>5 DEF Keeps, KeepsBurst, n, P
<1> QED
  BY <1>6, <1>7, <1>8 DEF Keeps

(* and the past stays due. *)
LEMMA DueStays ==
    ASSUME NEW l, NEW R, NEW m, NEW Q, NEW e, Grows(l, R, m, Q, e), NEW n \in 1 .. Len(l),
           Due(l, R, n)
    PROVE  Due(m, Q, n)
<1> DEFINE x == l[n]
<1>1. /\ n - 1 \in 0 .. Len(l) /\ n - 1 \in 0 .. Len(m) /\ n \in 0 .. Len(l) /\ n \in 0 .. Len(m)
      /\ m[n] = x /\ \A i \in 1 .. Len(l) : m[i] = l[i]
      /\ \A i \in 1 .. n : i \in 1 .. Len(l)
  BY UserPositionsGrow
<1>2. \A rule \in {"BRUTE_FORCE_SUCCESS", "LONG_OPEN", "LONG_OVERRIDDEN", "DANGER_CHAIN",
                   "DORMANT_ACCOUNT"} : RaisedIn(Q, rule, n) <=> RaisedIn(R, rule, n)
  <2>1. {"BRUTE_FORCE_SUCCESS", "LONG_OPEN", "LONG_OVERRIDDEN", "DANGER_CHAIN",
         "DORMANT_ACCOUNT"} \subseteq Rules
    BY DEF Rules, LongSessionRules
  <2>2. \A rule \in Rules, i \in 1 .. Len(l) : RaisedIn(Q, rule, i) <=> RaisedIn(R, rule, i)
    BY UserPositionsGrow
  <2> QED
    BY <2>1, <2>2
<1> HIDE DEF x
<1>3. /\ Trailing(m, n - 1, x) = Trailing(l, n - 1, x)
      /\ \A s : /\ IsSession(m, Q, n - 1, x, s) <=> IsSession(l, R, n - 1, x, s)
                /\ Chain(m, Q, n - 1, x, s) = Chain(l, R, n - 1, x, s)
  <2> DEFINE b == n - 1
  <2>1. b \in 0 .. Len(l) /\ b \in 0 .. Len(m)
    BY <1>1
  <2> SUFFICES /\ Trailing(m, b, x) = Trailing(l, b, x)
               /\ \A s : /\ IsSession(m, Q, b, x, s) <=> IsSession(l, R, b, x, s)
                         /\ Chain(m, Q, b, x, s) = Chain(l, R, b, x, s)
    OBVIOUS
  <2> HIDE DEF b
  <2> QED
    BY <2>1, HistoryStays
<1>4. /\ UserPositions(m, n, x) = UserPositions(l, n, x)
      /\ \A s : From(m, n, x, s) = From(l, n, x, s)
  BY <1>1, HistoryStays
<1>5. SuccessDue(m, Q, n)
  BY <1>1, <1>2, <1>3 DEF Due, SuccessDue, x
<1>6. \A s : IsSession(l, R, n - 1, x, s) => m[s] = l[s]
  <2>1. \A s \in 1 .. n - 1 : s \in 1 .. Len(l)
    BY <1>1
  <2> QED
    BY <1>1, <2>1 DEF IsSession, UserPositions
<1>7. OpenDue(m, Q, n)
  BY <1>1, <1>2, <1>3, <1>6 DEF Due, OpenDue, x
<1>8. ChainDue(m, Q, n)
  BY <1>1, <1>2, <1>3 DEF Due, ChainDue, x
<1>9. BurstDue(m, Q, n)
  <2>1. \A w \in UserPositions(l, n, x) : m[w] = l[w] /\ (Wakes(m, w) <=> Wakes(l, w))
    <3>1. \A w \in UserPositions(l, n, x) : w \in 1 .. Len(l)
      BY <1>1 DEF UserPositions
    <3> QED
      BY <1>1, <3>1, WakesStays
  <2> QED
    BY <1>1, <1>2, <1>4, <2>1 DEF Due, BurstDue, BurstAt, x
<1> QED
  BY <1>5, <1>7, <1>8, <1>9 DEF Due

(* The event itself is reported where it should be. *)
LEMMA NewDue ==
    ASSUME NEW l, NEW R, NEW m, NEW Q, NEW e \in Entries, Grows(l, R, m, Q, e),
           NEW u \in UserContext, NEW d \in DeviceContext, Remembers(u, l, e), Sorted(m),
           Keeps(u, l, R, e),
           \A rule \in Rules : RaisedIn(Q, rule, Len(m)) <=> Fires(rule, u, d, e)
    PROVE  Due(m, Q, Len(m))
<1> DEFINE n == Len(m)
<1>1. /\ Len(l) \in Nat /\ n - 1 = Len(l) /\ m[n] = e
      /\ Len(l) \in 0 .. Len(l) /\ Len(l) \in 0 .. Len(m)
      /\ \A i \in 1 .. Len(l) : m[i] = l[i]
  BY UserPositionsGrow
<1>2. /\ RaisedIn(Q, "BRUTE_FORCE_SUCCESS", n) <=> BruteForceSuccess(u, e)
      /\ RaisedIn(Q, "LONG_OPEN", n) <=> LongOpen(u, e)
      /\ RaisedIn(Q, "LONG_OVERRIDDEN", n) <=> LongOverridden(u, e)
      /\ RaisedIn(Q, "DANGER_CHAIN", n) <=> DangerChain(u, e)
      /\ RaisedIn(Q, "DORMANT_ACCOUNT", n) <=> DormantAccount(u, e)
  BY DEF Rules, LongSessionRules, Fires
<1>3. /\ Trailing(m, Len(l), e) = Trailing(l, Len(l), e)
      /\ \A s : /\ IsSession(m, Q, Len(l), e, s) <=> IsSession(l, R, Len(l), e, s)
                /\ Chain(m, Q, Len(l), e, s) = Chain(l, R, Len(l), e, s)
  BY <1>1, HistoryStays
<1>4. \A s : IsSession(l, R, Len(l), e, s) => m[s] = l[s]
  BY <1>1 DEF IsSession, UserPositions
<1> HIDE DEF n
<1>5. SuccessDue(m, Q, n)
  BY <1>1, <1>2, <1>3 DEF SuccessDue, Keeps, CountsFailures, BruteForceSuccess
<1>6. ASSUME NEW s, NEW t, IsSession(l, R, Len(l), e, s), IsSession(l, R, Len(l), e, t)
      PROVE  s = t
  <2>1. s \in Nat /\ t \in Nat
    BY <1>6 DEF IsSession, UserPositions
  <2>2. ~(s > t) /\ ~(t > s)
    BY <1>6 DEF IsSession
  <2> QED
    BY <2>1, <2>2
<1>7. OpenDue(m, Q, n)
  <2>1. RaisedIn(Q, "LONG_OPEN", n) \/ RaisedIn(Q, "LONG_OVERRIDDEN", n)
          <=> u.hasActiveSession /\ IsLong(u, e)
    BY <1>2 DEF LongOpen, LongOverridden
  <2>2. CASE u.hasActiveSession
    <3>1. PICK s : IsSession(l, R, Len(l), e, s) /\ u.sessionStartTimestamp = l[s].timestamp
      BY <2>2 DEF Keeps, KeepsSession
    <3>2. IsLong(u, e) <=> e.timestamp - m[s].timestamp > MAX_SESSION_DURATION_SEC
      BY <1>4, <3>1 DEF IsLong
    <3> QED
      BY <1>1, <1>3, <1>6, <2>1, <2>2, <3>1, <3>2 DEF OpenDue
  <2>3. CASE ~u.hasActiveSession
    BY <1>1, <1>3, <2>1, <2>3 DEF OpenDue, Keeps, KeepsSession
  <2> QED
    BY <2>2, <2>3
<1>8. ChainDue(m, Q, n)
  <2>1. CASE u.hasActiveSession
    <3>1. PICK s : IsSession(l, R, Len(l), e, s)
                   /\ u.dangerousActionCount = Cardinality(Chain(l, R, Len(l), e, s))
      BY <2>1 DEF Keeps, KeepsSession
    <3>2. u.dangerousActionCount + 1 >= DANGER_CHAIN_THRESHOLD
            <=> u.dangerousActionCount + 1 = DANGER_CHAIN_THRESHOLD
      <4>1. DANGER_CHAIN_THRESHOLD \in Nat /\ u.dangerousActionCount \in 0 .. DANGER_CHAIN_THRESHOLD - 1
        BY ThresholdAssumption DEF UserContext
      <4> QED
        BY <4>1
    <3>3. DangerChain(u, e) <=>
            IsDangerous(e) /\ Cardinality(Chain(l, R, Len(l), e, s)) + 1 = DANGER_CHAIN_THRESHOLD
      BY <2>1, <3>1, <3>2 DEF DangerChain, Counts
    <3> QED
      BY <1>1, <1>2, <1>3, <1>6, <3>1, <3>3 DEF ChainDue
  <2>2. CASE ~u.hasActiveSession
    BY <1>1, <1>2, <1>3, <2>2 DEF ChainDue, Keeps, KeepsSession, DangerChain, Counts
  <2> QED
    BY <2>1, <2>2
<1>9. BurstDue(m, Q, n)
  <2>1. DormantAccount(u, e) <=> BurstAt(m, n)
    BY BurstStep DEF n, Keeps
  <2> QED
    BY <1>2, <2>1 DEF BurstDue
<1> QED
  BY <1>5, <1>7, <1>8, <1>9 DEF Due, n

(* All contexts and all reports after one event.                           *)
LEMMA HistoryStep ==
    ASSUME NEW U, NEW D, NEW l, NEW R, NEW V, NEW B, NEW m, NEW Q, NEW e,
           OneEvent(U, D, l, R, V, B, m, Q, e), AllRemember(U, l), Sorted(m),
           AllKeep(U, l, R), AllDue(l, R)
    PROVE  AllKeep(V, m, Q) /\ AllDue(m, Q)
<1> DEFINE u == U[e.userId]
           d == D[e.deviceId]
<1>1. /\ e \in Entries /\ Grows(l, R, m, Q, e) /\ u \in UserContext /\ d \in DeviceContext
      /\ \A rule \in Rules : RaisedIn(Q, rule, Len(m)) <=> Fires(rule, u, d, e)
      /\ e.userId \in Users
  BY EntryFields DEF OneEvent
<1>2. Remembers(u, l, e) /\ Keeps(u, l, R, e)
  BY <1>1 DEF AllRemember, AllKeep
<1>3. ASSUME NEW x \in Entries
      PROVE  Keeps(V[x.userId], m, Q, x)
  <2>1. V[x.userId] = IF x.userId = e.userId THEN UserAfter(u, e) ELSE U[x.userId]
    BY <1>1, EntryFields DEF OneEvent
  <2>2. CASE x.userId = e.userId
    <3>1. /\ RaisedIn(Q, "LONG_OPEN", Len(m)) <=> LongOpen(u, e)
          /\ RaisedIn(Q, "DANGER_CHAIN", Len(m)) <=> DangerChain(u, e)
      BY <1>1 DEF Rules, LongSessionRules, Fires
    <3> HIDE DEF u, d
    <3>2. CountsFailures(UserAfter(u, e), m, e)
      BY <1>1, <1>2, FailuresStep DEF Keeps
    <3>3. KeepsSession(UserAfter(u, e), m, Q, e)
      BY <1>1, <1>2, <3>1, SessionStep DEF Keeps
    <3>4. KeepsBurst(UserAfter(u, e), m, e)
      BY <1>1, <1>2, BurstStep DEF Keeps
    <3>5. Keeps(UserAfter(u, e), m, Q, x)
      <4> DEFINE v == UserAfter(u, e)
      <4>1. Keeps(v, m, Q, e)
        BY <3>2, <3>3, <3>4 DEF Keeps
      <4> HIDE DEF v
      <4>2. Keeps(v, m, Q, x)
        BY <2>2, <4>1, SameUserKeeps
      <4> QED
        BY <4>2 DEF v
    <3> QED
      BY <2>1, <2>2, <3>5
  <2>3. CASE x.userId # e.userId
    <3>1. Keeps(U[x.userId], l, R, x)
      BY DEF AllKeep
    <3>2. Keeps(U[x.userId], m, Q, x)
      BY <1>1, <2>3, <3>1, OthersKeep
    <3> QED
      BY <2>1, <2>3, <3>2
  <2> QED
    BY <2>2, <2>3
<1>4. ASSUME NEW n \in 1 .. Len(m)
      PROVE  Due(m, Q, n)
  <2>1. n = Len(m) \/ n \in 1 .. Len(l)
    BY <1>1, UserPositionsGrow
  <2>2. CASE n = Len(m)
    <3>1. Due(m, Q, Len(m))
      <4> HIDE DEF u, d
      <4> QED
        BY <1>1, <1>2, NewDue
    <3> QED
      BY <2>2, <3>1
  <2>3. CASE n \in 1 .. Len(l)
    BY <1>1, <2>3, DueStays DEF AllDue
  <2> QED
    BY <2>1, <2>2, <2>3
<1> QED
  BY <1>3, <1>4 DEF AllKeep, AllDue

(* Nothing has happened yet.                                               *)
LEMMA InitHistoryInv == Init => HistoryInv
<1> SUFFICES ASSUME Init PROVE HistoryInv
  OBVIOUS
<1>1. log = << >> /\ Len(log) = 0 /\ 1 .. Len(log) = {}
  BY DEF Init
<1>2. ASSUME NEW x \in Entries
      PROVE  userContexts[x.userId] = NewUserContext /\ UserPositions(log, Len(log), x) = {}
  BY <1>1, EntryFields DEF Init, UserPositions
<1>3. ASSUME NEW x \in Entries
      PROVE  Keeps(userContexts[x.userId], log, results, x)
  <2> DEFINE u == userContexts[x.userId]
  <2>1. ~u.hasActiveSession /\ ~u.wasLongDormant /\ u.consecutiveFailedCount = 0
    BY <1>2 DEF NewUserContext
  <2>2. Trailing(log, Len(log), x) = {}
    BY <1>2 DEF Trailing
  <2>3. CountsFailures(u, log, x)
    BY <2>1, <2>2, FS_EmptySet DEF CountsFailures
  <2>4. KeepsSession(u, log, results, x)
    BY <1>2, <2>1 DEF KeepsSession, IsSession
  <2>5. KeepsBurst(u, log, x)
    BY <1>2, <2>1 DEF KeepsBurst
  <2> QED
    BY <2>3, <2>4, <2>5 DEF Keeps
<1> QED
  BY <1>1, <1>3 DEF HistoryInv, AllKeep, AllDue

(* Every step keeps counters and reports in agreement with the log.        *)
LEMMA NextHistoryInv == TypeOK /\ WindowInv /\ HistoryInv /\ [Next]_vars => HistoryInv'
<1> SUFFICES ASSUME TypeOK, WindowInv, HistoryInv, [Next]_vars PROVE HistoryInv'
  OBVIOUS
<1>1. ASSUME NEW e \in Entries, ProcessEvent(e) PROVE HistoryInv'
  <2>1. OneEvent(userContexts, deviceContexts, log, results,
                 userContexts', deviceContexts', log', results', e)
    BY <1>1, EventSteps
  <2>2. Sorted(log')
    BY <2>1, SortedStep DEF WindowInv
  <2> QED
    BY <2>1, <2>2, HistoryStep DEF WindowInv, HistoryInv
<1>2. CASE UNCHANGED <<userContexts, deviceContexts, results, log>>
  BY <1>2 DEF HistoryInv
<1> QED
  BY <1>1, <1>2 DEF Next, NextUser, vars

(* The counters, the session and the burst of every user always stand for  *)
(* the user's history, and rules 7, 8, 10 and 11 are raised exactly where  *)
(* that history makes them due.                                            *)
THEOREM CountersKept == Spec => [](TypeOK /\ WindowInv /\ HistoryInv)
<1>1. Init => HistoryInv
  BY InitHistoryInv
<1>2. TypeOK /\ WindowInv /\ HistoryInv /\ [Next]_vars => HistoryInv'
  BY NextHistoryInv
<1> QED
  BY <1>1, <1>2, WindowsKept, PTL DEF Spec

-----------------------------------------------------------------------------
(* The timeline of a user up to the entry before n. *)
LEMMA TimelineIs ==
    ASSUME NEW n \in 1 .. Len(log)
    PROVE  /\ n \in Nat /\ n - 1 \in Nat
           /\ Timeline(n, 1, n - 1) = UserPositions(log, n - 1, log[n])
           /\ UserPositions(log, n - 1, log[n]) \in SUBSET (1 .. n - 1)
BY DEF Timeline, UserPositions

(* Rule 10 *)
LEMMA BruteForceSuccessFollows == TypeOK /\ HistoryInv => BruteForceSuccessExact
<1> SUFFICES ASSUME TypeOK, HistoryInv, NEW n \in 1 .. Len(log)
             PROVE  Raised("BRUTE_FORCE_SUCCESS", n) <=>
                      /\ Is(log[n], "LOGIN")
                      /\ LET before == LastOf(Timeline(n, 1, n - 1), BRUTE_FORCE_THRESHOLD)
                         IN  /\ Cardinality(before) = BRUTE_FORCE_THRESHOLD
                             /\ \A i \in before : Is(log[i], "FAILED_LOGIN")
  BY DEF BruteForceSuccessExact, TypeOK
<1> DEFINE k == BRUTE_FORCE_THRESHOLD
           S == UserPositions(log, n - 1, log[n])
           F == Trailing(log, n - 1, log[n])
           last == LastOf(S, k)
<1>1. SuccessDue(log, results, n)
  BY DEF HistoryInv, AllDue, Due
<1>2. n - 1 \in Nat /\ Timeline(n, 1, n - 1) = S /\ S \in SUBSET (1 .. n - 1)
  BY TimelineIs
<1>3. k \in Nat \ {0}
  BY ThresholdAssumption
<1>4. F = {i \in S : \A j \in S : i <= j => Is(log[j], "FAILED_LOGIN")}
  BY DEF Trailing
<1>5. Raised("BRUTE_FORCE_SUCCESS", n) <=> Is(log[n], "LOGIN") /\ Cardinality(F) >= k
  BY <1>1 DEF SuccessDue, Raised, RaisedIn
<1> HIDE DEF S, F, k
<1>6. F \in SUBSET S /\ \A i \in F, j \in S : i < j => j \in F
  <2>1. \A i \in S : i \in Nat
    BY <1>2
  <2> QED
    BY <1>4, <2>1
<1>7. Cardinality(F) >= k <=> Cardinality(last) = k /\ last \subseteq F
  <2> DEFINE a == n - 1
  <2>1. a \in Nat /\ S \in SUBSET (1 .. a)
    BY <1>2
  <2> HIDE DEF a
  <2> QED
    BY <1>3, <1>6, <2>1, FullTail
<1>8. last \subseteq F <=> \A i \in last : Is(log[i], "FAILED_LOGIN")
  <2>1. last \in SUBSET S
    BY DEF LastOf
  <2>2. \A i \in last, j \in S : i <= j => j \in last
    BY <1>2, <1>3, LastOnes
  <2>3. \A i \in S : i <= i
    BY <1>2
  <2> HIDE DEF last
  <2> QED
    BY <1>4, <2>1, <2>2, <2>3
<1> QED
  BY <1>2, <1>5, <1>7, <1>8 DEF k

(* SessionOf(n) is the login of the open session. *)
LEMMA SessionIs ==
    ASSUME NEW n \in 1 .. Len(log), NEW s
    PROVE  IsSession(log, results, n - 1, log[n], s) <=> s = SessionOf(n) /\ s # 0
<1> DEFINE P == UserPositions(log, n - 1, log[n])
           L == {i \in P : Is(log[i], "LOGIN")}
           login == Latest(L)
           Ends(i) == Is(log[i], "LOGOUT") \/ RaisedIn(results, "LONG_OPEN", i)
<1>1. n - 1 \in Nat /\ Timeline(n, 1, n - 1) = P /\ P \in SUBSET (1 .. n - 1)
  BY TimelineIs
<1>2. login \in L \cup {0} /\ login \in 0 .. n - 1 /\ \A i \in L : i <= login
  <2>1. L \in SUBSET (1 .. n - 1)
    BY <1>1
  <2> HIDE DEF L
  <2> QED
    BY <1>1, <2>1, LatestIs
<1>3. SessionOf(n) = IF \E i \in Timeline(n, login + 1, n - 1) : Ends(i) THEN 0 ELSE login
  BY <1>1 DEF SessionOf, Raised, RaisedIn
<1>4. ASSUME NEW i
      PROVE  i \in Timeline(n, login + 1, n - 1) <=> i \in P /\ i > login
  <2>1. i \in login + 1 .. n - 1 <=> i \in 1 .. n - 1 /\ i > login
    BY <1>2
  <2> HIDE DEF login
  <2> QED
    BY <2>1 DEF Timeline, UserPositions
<1>5. IsSession(log, results, n - 1, log[n], s) <=>
        s \in L /\ \A j \in P : j > s => j \notin L /\ ~Ends(j)
  BY DEF IsSession
<1>6. \A i \in L : i \in P /\ i \in 1 .. n - 1
  BY <1>1
<1> HIDE DEF P, L, login, Ends
<1>7. ASSUME s \in L, \A j \in P : j > s => j \notin L /\ ~Ends(j)
      PROVE  s = SessionOf(n) /\ s # 0
  <2>1. s \in 1 .. n - 1 /\ s <= login
    BY <1>2, <1>6, <1>7
  <2>2. login \in L
    BY <1>2, <2>1
  <2>3. s = login
    BY <1>2, <1>6, <1>7, <2>1, <2>2
  <2> QED
    BY <1>3, <1>4, <1>7, <2>1, <2>3
<1>8. ASSUME s = SessionOf(n), s # 0
      PROVE  s \in L /\ \A j \in P : j > s => j \notin L /\ ~Ends(j)
  <2>1. s = login /\ \A i \in P : i > login => ~Ends(i)
    BY <1>3, <1>4, <1>8
  <2>2. \A i \in L : i \in Nat /\ ~(i > login)
    BY <1>2, <1>6
  <2> QED
    BY <1>2, <1>8, <2>1, <2>2
<1> QED
  BY <1>5, <1>7, <1>8

(* Rule 7 *)
LEMMA OpenSessionFollows == TypeOK /\ HistoryInv => OpenSessionReportedOnce
<1> SUFFICES ASSUME TypeOK, HistoryInv, NEW n \in 1 .. Len(log)
             PROVE  Raised("LONG_OPEN", n) \/ Raised("LONG_OVERRIDDEN", n) <=>
                      /\ SessionOf(n) # 0
                      /\ Ts(n) - Ts(SessionOf(n)) > MAX_SESSION_DURATION_SEC
  BY DEF OpenSessionReportedOnce, TypeOK
<1>1. OpenDue(log, results, n)
  BY DEF HistoryInv, AllDue, Due
<1>2. \A s : IsSession(log, results, n - 1, log[n], s) <=> s = SessionOf(n) /\ s # 0
  BY SessionIs
<1> QED
  BY <1>1, <1>2 DEF OpenDue, Raised, RaisedIn, Ts

(* The later of two positions up to n, or 0. *)
LEMMA LatestOfTwo ==
    ASSUME NEW a \in Nat, NEW b \in Nat
    PROVE  Latest({a, b}) \in Nat /\ \A i \in Nat : i > Latest({a, b}) <=> i > a /\ i > b
<1> DEFINE T == {a, b} \cup {0}
<1>1. \E x \in T : \A y \in T : x >= y
  <2>1. CASE a >= b
    BY <2>1
  <2>2. CASE b >= a
    BY <2>2
  <2> QED
    BY <2>1, <2>2
<1>2. Max(T) \in T /\ \A y \in T : Max(T) >= y
  <2> HIDE DEF T
  <2> QED
    BY <1>1 DEF Max
<1>3. Latest({a, b}) = Max(T)
  BY DEF Latest
<1> DEFINE x == Max(T)
<1>4. x \in Nat /\ x >= a /\ x >= b /\ (x = a \/ x = b \/ x = 0)
  BY <1>2
<1> HIDE DEF x
<1>5. \A i \in Nat : i > x <=> i > a /\ i > b
  BY <1>4
<1> QED
  BY <1>3, <1>4, <1>5 DEF x

(* The dangerous actions of a session since the last report up to n, as    *)
(* the property has them: those before n, and n.                           *)
LEMMA ChainIs ==
    ASSUME NEW n \in 1 .. Len(log), NEW s \in 1 .. n - 1, IsDangerous(log[n])
    PROVE  LET since == Latest({s, Previous("DANGER_CHAIN", n)})
           IN  {i \in Timeline(n, since + 1, n) : IsDangerous(log[i])}
                  = Chain(log, results, n - 1, log[n], s) \cup {n}
<1> DEFINE p == Previous("DANGER_CHAIN", n)
           since == Latest({s, p})
           P == UserPositions(log, n - 1, log[n])
           C == {i \in Timeline(n, since + 1, n) : IsDangerous(log[i])}
           F == Chain(log, results, n - 1, log[n], s)
<1>1. n \in Nat /\ n - 1 \in Nat /\ P \in SUBSET (1 .. n - 1)
  BY TimelineIs
<1>2. p \in 0 .. n
  BY <1>1, PreviousType
<1>3. \A i \in 1 .. n : i > p <=> \A r \in P : RaisedIn(results, "DANGER_CHAIN", r) => r < i
  <2>1. \A i \in 1 .. n :
           i \in p + 1 .. n <=>
               \A r \in 1 .. n - 1 :
                   RaisedIn(results, "DANGER_CHAIN", r)
                     /\ SameSubject("DANGER_CHAIN", log[r], log[n]) => r < i
    BY <1>1, AfterPrevious
  <2>2. \A r : r \in P <=> r \in 1 .. n - 1 /\ SameSubject("DANGER_CHAIN", log[r], log[n])
    BY DEF UserPositions, SameSubject, DeviceRules
  <2> HIDE DEF p, P
  <2>3. \A i \in 1 .. n : i \in p + 1 .. n <=> i > p
    BY <1>1, <1>2
  <2> QED
    BY <2>1, <2>2, <2>3
<1>4. since \in Nat /\ \A i \in Nat : i > since <=> i > s /\ i > p
  <2> HIDE DEF p
  <2> QED
    BY <1>2, LatestOfTwo
<1> HIDE DEF p
<1>5. \A i : i \in C <=> /\ i \in 1 .. n /\ log[i].userId = log[n].userId
                         /\ i > s /\ i > p /\ IsDangerous(log[i])
  <2> HIDE DEF since
  <2>1. \A i : i \in since + 1 .. n <=> i \in 1 .. n /\ i > s /\ i > p
    BY <1>1, <1>4
  <2> QED
    BY <2>1 DEF Timeline
<1>6. \A i : i \in F <=> /\ i \in P /\ i > s /\ IsDangerous(log[i])
                         /\ \A r \in P : RaisedIn(results, "DANGER_CHAIN", r) => r < i
  BY DEF Chain
<1>7. \A i : i \in P <=> i \in 1 .. n - 1 /\ log[i].userId = log[n].userId
  BY DEF UserPositions
<1> HIDE DEF P, C, F, since
<1>8. \A i : i \in 1 .. n <=> i = n \/ i \in 1 .. n - 1
  BY <1>1
<1>9. n > s /\ n > p
  <2>1. \A r \in P : r < n
    BY <1>1
  <2>2. n \in 1 .. n
    BY <1>1
  <2>3. n > p
    BY <1>3, <2>1, <2>2
  <2> QED
    BY <1>1, <2>3
<1>10. \A i : i \in C <=> i \in F \cup {n}
  BY <1>3, <1>5, <1>6, <1>7, <1>8, <1>9
<1>11. C = F \cup {n}
  BY <1>10
<1> QED
  BY <1>11 DEF C, F, since, p

(* Rule 8 *)
LEMMA DangerChainFollows == TypeOK /\ HistoryInv => DangerChainPerSession
<1> SUFFICES ASSUME TypeOK, HistoryInv, NEW n \in DOMAIN log
             PROVE  Raised("DANGER_CHAIN", n) <=>
                      /\ SessionOf(n) # 0
                      /\ IsDangerous(log[n])
                      /\ LET since == Latest({SessionOf(n), Previous("DANGER_CHAIN", n)})
                         IN  Cardinality({i \in Timeline(n, since + 1, n) : IsDangerous(log[i])})
                                 = DANGER_CHAIN_THRESHOLD
  BY Zenon DEF DangerChainPerSession
<1>1. n \in 1 .. Len(log)
  BY DEF TypeOK
<1>2. ChainDue(log, results, n)
  BY <1>1 DEF HistoryInv, AllDue, Due
<1>3. \A s : IsSession(log, results, n - 1, log[n], s) <=> s = SessionOf(n) /\ s # 0
  BY <1>1, SessionIs
<1> DEFINE s == SessionOf(n)
           since == Latest({s, Previous("DANGER_CHAIN", n)})
           C == {i \in Timeline(n, since + 1, n) : IsDangerous(log[i])}
           F == Chain(log, results, n - 1, log[n], s)
<1>4. Raised("DANGER_CHAIN", n) <=>
        /\ IsDangerous(log[n])
        /\ s # 0
        /\ Cardinality(F) + 1 = DANGER_CHAIN_THRESHOLD
  BY <1>2, <1>3 DEF ChainDue, Raised, RaisedIn
<1>5. ASSUME IsDangerous(log[n]), s # 0
      PROVE  Cardinality(C) = Cardinality(F) + 1
  <2>1. n - 1 \in Nat /\ n \notin 1 .. n - 1
    BY <1>1, TimelineIs
  <2>2. F \in SUBSET UserPositions(log, n - 1, log[n])
    BY DEF Chain
  <2>3. UserPositions(log, n - 1, log[n]) \in SUBSET (1 .. n - 1)
    BY <1>1, TimelineIs
  <2>4. s \in 1 .. n - 1
    BY <1>3, <1>5, <2>3 DEF IsSession
  <2>5. C = F \cup {n}
    <3> HIDE DEF s
    <3> QED
      BY <1>1, <1>5, <2>4, ChainIs
  <2>6. IsFiniteSet(F) /\ Cardinality(F) \in Nat
    BY <2>1, <2>2, UserPositionsType
  <2>7. n \notin F
    BY <2>1, <2>2, <2>3
  <2> HIDE DEF C, F
  <2> QED
    BY <2>5, <2>6, <2>7, FS_AddElement
<1> HIDE DEF C, F, s
<1>6. Raised("DANGER_CHAIN", n) <=>
        s # 0 /\ IsDangerous(log[n]) /\ Cardinality(C) = DANGER_CHAIN_THRESHOLD
  BY <1>4, <1>5
<1> QED
  BY <1>6 DEF C, s

(* The end of a silence, as the property has it. *)
LEMMA WakesIs ==
    ASSUME NEW w \in 1 .. Len(log)
    PROVE  LET before == Latest(Timeline(w, 1, w - 1))
           IN  Wakes(log, w) <=> before # 0 /\ Ts(w) - Ts(before) > DORMANT_THRESHOLD_SEC
<1> DEFINE before == Latest(Timeline(w, 1, w - 1))
<1>1. /\ before \in 0 .. w - 1
      /\ \A j \in 1 .. w - 1 : j = before <=> LastBefore(log, j, w)
  BY LatestEntry DEF LastBefore
<1> HIDE DEF before
<1>2. before # 0 <=> before \in 1 .. w - 1
  BY <1>1
<1>3. Wakes(log, w) <=>
        \E b \in 1 .. w - 1 : b = before /\ Ts(w) - Ts(b) > DORMANT_THRESHOLD_SEC
  BY <1>1 DEF Wakes, Ts
<1> QED
  BY <1>2, <1>3 DEF before

(* Rule 11 *)
LEMMA DormantBurstFollows == TypeOK /\ HistoryInv => DormantBurstExact
<1> SUFFICES ASSUME TypeOK, HistoryInv, NEW n \in 1 .. Len(log)
             PROVE  Raised("DORMANT_ACCOUNT", n) <=>
                      \E w \in Timeline(n, 1, n) :
                          LET before == Latest(Timeline(n, 1, w - 1))
                          IN  /\ before # 0
                              /\ Ts(w) - Ts(before) > DORMANT_THRESHOLD_SEC
                              /\ Ts(n) - Ts(w) <= DORMANT_BURST_WINDOW_SEC
                              /\ Cardinality(Timeline(n, w, n)) = DORMANT_BURST_THRESHOLD
  BY DEF DormantBurstExact, TypeOK
<1>1. Raised("DORMANT_ACCOUNT", n) <=> BurstAt(log, n)
  BY DEF HistoryInv, AllDue, Due, BurstDue, Raised, RaisedIn
<1>2. Timeline(n, 1, n) = UserPositions(log, n, log[n])
  BY DEF Timeline, UserPositions
<1>3. ASSUME NEW w \in Timeline(n, 1, n)
      PROVE  /\ Wakes(log, w) <=>
                   /\ Latest(Timeline(n, 1, w - 1)) # 0
                   /\ Ts(w) - Ts(Latest(Timeline(n, 1, w - 1))) > DORMANT_THRESHOLD_SEC
             /\ From(log, n, log[n], w) = Timeline(n, w, n)
  <2>1. w \in 1 .. n /\ w \in 1 .. Len(log) /\ log[w].userId = log[n].userId
    BY DEF Timeline
  <2>2. Timeline(n, 1, w - 1) = Timeline(w, 1, w - 1)
    BY <2>1 DEF Timeline
  <2>3. \A i : i \in w .. n <=> i \in 1 .. n /\ i >= w
    BY <2>1
  <2>4. From(log, n, log[n], w) = Timeline(n, w, n)
    BY <2>3 DEF From, UserPositions, Timeline
  <2> QED
    BY <2>1, <2>2, <2>4, WakesIs
<1>4. BurstAt(log, n) <=>
        \E w \in Timeline(n, 1, n) :
            /\ Wakes(log, w)
            /\ Ts(n) - Ts(w) <= DORMANT_BURST_WINDOW_SEC
            /\ Cardinality(Timeline(n, w, n)) = DORMANT_BURST_THRESHOLD
  BY <1>2, <1>3 DEF BurstAt, Ts
<1> QED
  BY <1>1, <1>3, <1>4

-----------------------------------------------------------------------------
(***************************************************************************)
(* The rules of the counters, for all thresholds and entries.              *)
(***************************************************************************)
(* Rule 10 reports a login exactly when the events of the user right       *)
(* before it, as many as the threshold says, are all failed logins.        *)
THEOREM BruteForceSuccessIsExact == Spec => []BruteForceSuccessExact
BY CountersKept, BruteForceSuccessFollows, PTL

(* Rule 7 reports an open session exactly once: at its first event after   *)
(* 24 hours, or at the login that overrides it.                            *)
THEOREM OpenSessionIsReportedOnce == Spec => []OpenSessionReportedOnce
BY CountersKept, OpenSessionFollows, PTL

(* Rule 8 reports a dangerous action exactly when it is the threshold's    *)
(* number of them in one session since the last report.                    *)
THEOREM DangerChainIsPerSession == Spec => []DangerChainPerSession
BY CountersKept, DangerChainFollows, PTL

(* Rule 11 reports exactly the threshold's event of the burst that follows *)
(* a silence of more than ten days.                                        *)
THEOREM DormantBurstIsExact == Spec => []DormantBurstExact
BY CountersKept, DormantBurstFollows, PTL
=============================================================================
