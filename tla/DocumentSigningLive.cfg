SPECIFICATION FairSpec
CONSTANTS
    p1 = p1
    p2 = p2
    p3 = p3
    N = 2
    Persons = {p1, p2, p3}
    Eligible <- MCEligible
    Workers = {w1, w2}
    Envelopes = {e1}
    MaxAttempts = 2
    Faults = {"storePdf", "savePdf"}
    None = None
PROPERTIES
    CollectedIsSettled
    SignedPdfArrives
