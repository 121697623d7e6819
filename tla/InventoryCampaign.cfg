SPECIFICATION CampaignSpec
CONSTANTS
    Starters = {x1}
    ReminderWorkers = {w1, w2}
    Offsets = {0, 1}
    MaxDay = 1
    MaxReschedules = 1
    MaxReminderDeaths = 1
    Surpluses = {s1}
    Centers = {c1, c2}
    NoCenter = NoCenter
    Users = {1, 2}
    SingleHead = {c1}
CHECK_DEADLOCK FALSE
INVARIANTS
    ScheduleInv
    ActsInv
    SurplusIsListedOnce
PROPERTIES
    SentIsCurrent
    DueIsSettled
