SPECIFICATION Spec
CONSTANTS
    Assets = {a1}
    Centers = {c1, c2}
    Persons = {p1}
    Loans = {l1}
    Transfers = {}
    WriteOffs = {}
    Handovers = {}
    Requests = {}
    Inventories = {}
    Actas = {k1, k2}
    Editors = {}
    None = None
SYMMETRY MCSymmetry
CHECK_DEADLOCK FALSE
INVARIANT UndoneHasNoLiveActa
