SPECIFICATION FairSpec
CONSTANTS
    customer = customer
    shop = shop
    Requests = {r1, r2}
    Verifiers = {v1, v2}
    MaxRows = 2
    UserWallets <- MCUserWallets
    StoreWallets <- MCStoreWallets
    Instants = {1}
    Ttl = 4
    Faults = {"replace", "evict"}
    MaxOutside = 1
    NoRow = NoRow
    NoHash = NoHash
    Chain = "amoy"
    Token = jpyc
    Operator = operator
    Accounts = {operator, customer, shop}
    ZeroAddress = ZeroAddress
    Amounts = {1}
    InitialOwner = operator
    InitialBalance <- MCBalance
    InitialAllowance <- MCAllowance
INVARIANTS
    NoOrphanTransaction
PROPERTIES
    ResolvedOrDropped
    EveryRequestEnds
CHECK_DEADLOCK FALSE
