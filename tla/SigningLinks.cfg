SPECIFICATION LinkSpec
CONSTANTS
    Signers = {p1, p2, p3}
    Links = {l1, l2}
    Senders = {s1, s2}
    Syncers = {y1, y2}
    LastTurn = 2
    MaxSends = 2
    MaxWrong = 1
    MaxTokens = 3
    MaxLinkEvents = 1
    NoLink = NoLink
    NoSigner = NoSigner
SYMMETRY Symmetry
INVARIANTS
    LinkInv
    EachActHasItsLink
CHECK_DEADLOCK FALSE
