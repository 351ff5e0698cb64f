\* Each group of facts in turn: tools and budgets; plans, modes and tasks;
\* mutations of the workspace with their verdicts and repairs.
SPECIFICATION Spec
CONSTANTS
    None = None
    Legacy = Legacy
    Calls = {c1, c2}
    Mutations = {m1, m2}
    Paths = {p1}
    Plans = {v1, v2}
    Tasks = {t1}
    SessionModes = {"default", "plan"}
    MaxModelCalls = 1
    MaxToolCalls = 3
    MaxIterations = 1
    MaxReplans = 2
    MaxRevision = 3
    MaxEvidence = 1
    MaxRepairs = 2
SYMMETRY Symmetry
CONSTRAINT OneGroup
INVARIANTS
    TypeOK
    SnapshotRestorable
    
    ObligationCoversMutations
    AwaitingImpliesReplanning
    CallsSettleOnce
