SPECIFICATION MCSpec
CONSTANTS
    j1 = j1
    j2 = j2
    r1 = r1
    r2 = r2
    n1 = n1
    n2 = n2
    Jobs = {j1, j2}
    Rows = {r1, r2}
    ImportWorkers = {w1, w2}
    NoJob = NoJob
    FileRows <- MCFileRows
    MaxImportAttempts = 2
    MaxClaims = 2
    MaxDeaths = 1
    MaxMovements = 2
    Mails <- MCMails
    Dispatchers = {w1, w2}
    NoMail = NoMail
    MaxMailAttempts = 2
    MaxMailFaults = 2
    FlagInstances = {n1, n2}
    CircuitThreshold = 1
    ReloadSlots = {1, 2}
    MaxInFlight = 1
    MaxUpsets = 3
INVARIANTS
    ImportInv
    HistoryIsOneChain
    MailInv
    FlagInv
PROPERTIES
    FinishedIsFinal
    ManualStays
    ImportEndsAndTells
    FlagsSettle
CHECK_DEADLOCK FALSE
