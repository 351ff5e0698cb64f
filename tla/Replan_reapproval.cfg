\* A second, low-impact replan reopens the write tools.
SPECIFICATION Spec
CONSTANTS
    None = None
    Legacy = Legacy
    Calls = {c1}
    Mutations <- MCMutations
    Paths = {p1, p2}
    Plans <- MCPlans
    Tasks = {}
    PlanIds = {A}
    MaxVersions = 2
    Stepless = {}
    PlannedPaths = {p1}
    MaxTurns = 5
    MaxModelCalls = 4
    MaxToolCalls = 6
    MaxRepairAttempts = 1
    Intelligence = FALSE
    FailureThreshold = 1
    ConflictThreshold = 2
    ScopeRatio = 1
    PressureAt = 3
    MaxPrompts = 2
    MaxRestarts = 1
PROPERTIES
    HighImpactReplanLocksWrites
