SPECIFICATION FairSpec
CONSTANTS
    customer = customer
    p1 = p1
    p2 = p2
    Workers = {w1, w2}
    Wallets = {1}
    Address <- MCSameAddress
    Holders = {customer}
    Spenders = {p1, p2}
    InitialSpender = p1
    Values = {1}
    Deadlines = {0}
    SignedNonces = {0, 1}
    SignedSpenders = {p1}
    Fees = {1, 2}
    Faults = {"timeout", "lost"}
    MaxTime = 1
    MaxNonce = 2
    MaxOutside = 1
    None = None
INVARIANTS
    TypeOK
    PermittedIsProven
PROPERTIES
    DeletionLasts
    UsesTheAccount
    EveryRequestEnds
CHECK_DEADLOCK FALSE
