CONSTANTS
    BRUTE_FORCE_THRESHOLD = 3
    DEVICE_HOP_THRESHOLD = 3
    RESOURCE_SCAN_THRESHOLD = 3
    MULTI_COUNTRY_THRESHOLD = 3
    CountryCapacity = 4
    DANGER_CHAIN_THRESHOLD = 2
    RAPID_SESSION_THRESHOLD = 2
    DORMANT_BURST_THRESHOLD = 3
    EXFILTRATION_THRESHOLD = 3
    COMPROMISED_DEVICE_THRESHOLD = 3
    LATERAL_MOVEMENT_THRESHOLD = 3
    UserCount = 12
    Devices = {0, 1, 2}
    Entries <- MCEntries
    MaxEvents = 5
SPECIFICATION Spec
CONSTRAINT OneGroup
CHECK_DEADLOCK FALSE
INVARIANTS
    TypeOK
    BruteForceExact
    RapidSessionExact
    BruteForceSuccessExact
    DeviceHoppingExact
    MultiCountryExact
    OpenSessionReportedOnce
    DangerChainPerSession
    DormantBurstExact
    ExfiltrationExact
    LateralMovementExact
    ReportedOnce
    ResourceScanExact
    SharedDeviceExact
