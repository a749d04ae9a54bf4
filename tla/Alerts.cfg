SPECIFICATION MCSpec
CONSTANTS
    NULL = NULL
    Dev = {d1, d2}
    Steady = {d1}
    Profile = {p1}
    Version = {v1, v2}
    Limit = 3
    MaxMissed = 1
    Changes = {"register", "delete", "status", "profile", "firmware", "seen", "resolve", "errors"}
INVARIANTS
    TypeOK
    AlertsHaveDevices
    SteadyNeverOffline
PROPERTIES
    DriftAlertsFollow
    StateAlertsFollow
