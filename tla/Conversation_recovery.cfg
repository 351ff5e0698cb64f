\* Two batches, compactions, snapshots and crashes, also during recovery.
SPECIFICATION Spec
CONSTANTS
    Calls = {c1, c2}
    Reissue = FALSE
    Budget = 5
    TailMessages = 2
    TailTokens = 3
    CompactFailureLimit = 1
    MaxHumans = 2
    MaxBatches = 2
    MaxNotes = 1
    MaxSnapshots = 1
    MaxCompactions = 2
    MaxCrashes = 2
SYMMETRY Symmetry
CONSTRAINT FewDisturbances
CHECK_DEADLOCK FALSE
INVARIANTS
    EveryCallAnswered
    ReplayAccepted
    SnapshotAgrees
    LoaderAgrees
    GoalKept
