SPECIFICATION Spec
CONSTANTS
    Assets = {a1, a2}
    Centers = {c1, c2}
    Persons = {p1}
    Loans = {l1, l2}
    Transfers = {}
    WriteOffs = {}
    Handovers = {}
    Requests = {}
    Inventories = {}
    Actas = {k1, k2, k3}
    Editors = {}
    None = None
SYMMETRY MCSymmetry
CHECK_DEADLOCK FALSE
INVARIANTS
    TypeOK
    OneOpenLoan
    ActasAreSound
