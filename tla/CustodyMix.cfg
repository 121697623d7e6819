SPECIFICATION MixSpec
CONSTANTS
    Assets = {a1}
    Centers = {c1, c2}
    Persons = {p1}
    Loans = {l1}
    Transfers = {t1}
    WriteOffs = {w1}
    Handovers = {h1}
    Requests = {r1}
    Inventories = {i1}
    Actas = {k1, k2, k3}
    Editors = {e1}
    None = None
SYMMETRY MCSymmetry
CHECK_DEADLOCK FALSE
INVARIANTS
    OnLoanIsOut
    HoldsAreSound
    FollowersSettle
    OutIsOnLoan
PROPERTIES
    OnLoanKeepsCustody
    ReturnsAsItCame
    CountedStaysPut
