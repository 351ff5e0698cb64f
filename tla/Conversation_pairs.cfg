\* What is sent to the model after compactions and a crash.
SPECIFICATION Spec
CONSTANTS
    Calls = {c1, c2}
    Reissue = FALSE
    Budget = 5
    TailMessages = 2
    TailTokens = 3
    CompactFailureLimit = 1
    MaxHumans = 2
    MaxBatches = 2
    MaxNotes = 1
    MaxSnapshots = 1
    MaxCompactions = 2
    MaxCrashes = 1
SYMMETRY Symmetry
CONSTRAINT FewDisturbances
CHECK_DEADLOCK FALSE
INVARIANT
    StrictlyPaired
