SPECIFICATION Spec
CONSTANTS
    p1 = p1
    p2 = p2
    p3 = p3
    N = 2
    Persons = {p1, p2, p3}
    Eligible <- MCEligible
    Workers = {w1, w2}
    Envelopes = {e1, e2}
    MaxAttempts = 1
    Faults <- MCAnyStep
    None = None
SYMMETRY MCSymmetry
INVARIANTS
    TypeOK
    SignersInv
    ClosedIsBacked
    SignedPdfIsComplete
PROPERTIES
    SettledStays
