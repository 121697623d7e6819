SPECIFICATION FairRequestSpec
CONSTANTS
    DocRequests = {r1, r2}
    Entities = {e1}
    Generators = {g1, g2}
    Direct = direct
    MaxTries = 2
    MaxNumber = 3
    MaxEvents = 1
CHECK_DEADLOCK FALSE
INVARIANTS
    RequestTypeOK
    StoredIsIssued
    TriesAreLimited
PROPERTIES
    LedgerIsKept
    RequestIsSettled
