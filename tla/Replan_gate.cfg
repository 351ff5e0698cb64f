\* One plan id, three versions, one task: replans, repairs, reapproval, gates, lanes, a restart.
SPECIFICATION Spec
CONSTANTS
    None = None
    Legacy = Legacy
    Calls = {c1}
    Mutations <- MCMutations
    Paths = {p1, p2}
    Plans <- MCPlans
    Tasks = {t1}
    PlanIds = {A}
    MaxVersions = 3
    Stepless = {}
    PlannedPaths = {p1}
    MaxTurns = 7
    MaxModelCalls = 6
    MaxToolCalls = 6
    MaxRepairAttempts = 1
    Intelligence = TRUE
    FailureThreshold = 1
    ConflictThreshold = 2
    ScopeRatio = 1
    PressureAt = 5
    MaxPrompts = 2
    MaxRestarts = 1
INVARIANTS
    GateNeverLags
    
    RetiredTasksStayRetired
    ReplanHasWayOut
PROPERTIES
    FirstReplanLocksWrites
    ReplanStopsWork
