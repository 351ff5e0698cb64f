\* Two turns, one crash: budgets, retries, reflections, verdicts and the end.
SPECIFICATION FairSpec
CONSTANTS
    None = None
    EvidenceIds <- Ids
    Store <- Receipts
    Stale = {"stale"}
    CriterionIds = {"k", "o"}
    Criteria <- PlanCriteria
    Reports <- MCReports
    MaxTurns = 4
    MaxModelCalls = 4
    MaxToolCalls = 2
    MaxAttempts = 2
    MaxRepairAttempts = 1
    ReflectionInterval = 1
    EvaluationWindow = 2
    CompactFailureLimit = 1
    MaxBatch = 1
    MaxRuns = 2
    MaxCrashes = 1
CHECK_DEADLOCK FALSE
INVARIANTS
    BudgetHolds
    CrashForgetsAtMostOne
    LoopReplayAgrees
    ReflectionsSingleFlight
    PassIsBacked
PROPERTIES
    EveryTurnEnds
