\* Three sessions that learn from each other.
SPECIFICATION CalibrationSpec
CONSTANTS
    None = None
    Sessions = {1, 2, 3}
    Triggers = {"periodic"}
    Actions = {"repair_plan"}
    Window = 3
    MinSamples = 1
    MaxSessions = 1
    MaxUsed <- ThreeSessions
    MaxClock = 1
CONSTRAINT FewEvents
CHECK_DEADLOCK FALSE
INVARIANTS
    ResumeAccepted
    LiveIsReplay
    HistoryIsPast
    ProvenanceHolds
