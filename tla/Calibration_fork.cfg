\* A damaged session is forked into a degraded branch.
SPECIFICATION CalibrationSpec
CONSTANTS
    None = None
    Sessions = {1, 2}
    Triggers = {"periodic"}
    Actions = {"repair_plan"}
    Window = 3
    MinSamples = 1
    MaxSessions = 1
    MaxUsed <- OneFork
    MaxClock = 0
CHECK_DEADLOCK FALSE
INVARIANT
    DegradedBranchOpens
