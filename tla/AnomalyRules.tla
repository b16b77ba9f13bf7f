---------------------------- MODULE AnomalyRules ----------------------------
(***************************************************************************)
(* anomaly/AnomalyRules.h and the capacities of the windows in             *)
(* UserContext.h and DeviceContext.h.  Durations are the code's own, in    *)
(* seconds; the numbers of events are CONSTANTS, so that small instances   *)
(* reach them and the proofs hold for all of them.                         *)
(***************************************************************************)
EXTENDS Integers

CONSTANTS
    BRUTE_FORCE_THRESHOLD,          \*  5 failures
    DEVICE_HOP_THRESHOLD,           \*  3 devices
    RESOURCE_SCAN_THRESHOLD,        \* 10 resources
    MULTI_COUNTRY_THRESHOLD,        \*  3 countries
    CountryCapacity,                \* 10, the capacity of countryWindow
    DANGER_CHAIN_THRESHOLD,         \*  3 dangerous actions
    RAPID_SESSION_THRESHOLD,        \*  3 logins
    DORMANT_BURST_THRESHOLD,        \* 20 events
    EXFILTRATION_THRESHOLD,         \*  5 resources
    COMPROMISED_DEVICE_THRESHOLD,   \*  3 users
    LATERAL_MOVEMENT_THRESHOLD      \*  4 apps

ASSUME ThresholdAssumption ==
    {BRUTE_FORCE_THRESHOLD, DEVICE_HOP_THRESHOLD, RESOURCE_SCAN_THRESHOLD,
     MULTI_COUNTRY_THRESHOLD, CountryCapacity, DANGER_CHAIN_THRESHOLD,
     RAPID_SESSION_THRESHOLD, DORMANT_BURST_THRESHOLD, EXFILTRATION_THRESHOLD,
     COMPROMISED_DEVICE_THRESHOLD, LATERAL_MOVEMENT_THRESHOLD} \subseteq Nat \ {0}

BRUTE_FORCE_WINDOW_SEC        == 5 * 60
DEVICE_HOP_WINDOW_SEC         == 10 * 60
RESOURCE_SCAN_WINDOW_SEC      == 5 * 60
WORK_HOUR_START               == 6
WORK_HOUR_END                 == 22
IMPOSSIBLE_TRAVEL_MIN_SEC     == 2 * 3600
MULTI_COUNTRY_WINDOW_SEC      == 48 * 3600
MAX_SESSION_DURATION_SEC      == 24 * 3600
RAPID_SESSION_WINDOW_SEC      == 10 * 60
DORMANT_THRESHOLD_SEC         == 10 * 24 * 3600
DORMANT_BURST_WINDOW_SEC      == 10 * 60
EXFILTRATION_WINDOW_SEC       == 10 * 60
COMPROMISED_DEVICE_WINDOW_SEC == 5 * 60
LATERAL_MOVEMENT_WINDOW_SEC   == 2 * 60
=============================================================================
