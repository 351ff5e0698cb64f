\* Crashes at every step, failed turns, edits by others, re-issued calls.
SPECIFICATION Spec
CONSTANTS
    None = None
    Legacy = Legacy
    p1 = p1
    A = A
    B = B
    Calls = {c1, c2}
    Mutations <- MCMutations
    Paths = {p1}
    Plans = {}
    Tasks = {}
    Contents = {A, B}
    Original = A
    Ops <- AllOps
    MaxBatch = 2
    MaxToolCalls = 2
    MaxRevision = 2
    MaxPrompts = 2
    MaxFaults = 2
SYMMETRY CallSymmetry
INVARIANTS
    EffectsAreOwed
    ReplayAgrees
    RevisionsAgree
PROPERTIES
    CompletedIsVerified
    ShellStartsOnce
    EffectNotRepeated
