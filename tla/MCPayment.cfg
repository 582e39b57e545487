SPECIFICATION Spec
CONSTANTS
    customer = customer
    shop = shop
    Requests = {r1, r2}
    Verifiers = {v1, v2}
    MaxRows = 2
    UserWallets <- MCUserWallets
    StoreWallets <- MCStoreWallets
    Instants = {1}
    Ttl = 4
    Faults = {"lost", "replace", "evict", "lag", "rpc"}
    MaxOutside = 1
    NoRow = NoRow
    NoHash = NoHash
    Chain = "amoy"
    Token = jpyc
    Operator = operator
    Accounts = {operator, customer, shop}
    ZeroAddress = ZeroAddress
    Amounts = {0, 1}
    InitialOwner = operator
    InitialBalance <- MCBalance
    InitialAllowance <- MCAllowance
INVARIANTS
    TypeOK
    PaidMeansSettled
    TxFailedMeansNotSettled
    NeverVerifyFailed
    OneBroadcastPerRequest
    PromiseInv
PROPERTIES
    OutcomeNeverFlips
    KeepsItsPromise
    UsesTheAccount
SYMMETRY MCSymmetry
CHECK_DEADLOCK FALSE
