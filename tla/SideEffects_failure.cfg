\* A turn fails and the next one ends as completed.
SPECIFICATION Spec
CONSTANTS
    None = None
    Legacy = Legacy
    p1 = p1
    A = A
    B = B
    Calls = {c1, c2}
    Mutations <- MCMutations
    Paths = {p1}
    Plans = {}
    Tasks = {}
    Contents = {A, B}
    Original = A
    Ops <- AllOps
    MaxBatch = 2
    MaxToolCalls = 2
    MaxRevision = 2
    MaxPrompts = 2
    MaxFaults = 1
SYMMETRY CallSymmetry
PROPERTIES
    ObligationSurvivesFailure
