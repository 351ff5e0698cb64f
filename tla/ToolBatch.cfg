\* Pairs of calls under every gate, triples on the same files.
SPECIFICATION FairSpec
CONSTANTS
    p1 = p1
    p2 = p2
    p3 = p3
    p4 = p4
    Paths = {p1, p2, p3, p4}
    Protected = {p3}
    Escaping = {p4}
    Scenarios <- MCScenarios
    MaxFaults = 2
\* A batch stops without a result where two calls ask at once.
CHECK_DEADLOCK FALSE
INVARIANTS
    Serializable
    PatchAtomic
    EffectsHaveConsent
PROPERTIES
    BatchSettles
