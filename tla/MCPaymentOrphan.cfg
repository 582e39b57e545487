SPECIFICATION Spec
CONSTANTS
    customer = customer
    shop = shop
    Requests = {r1}
    Verifiers = {v1}
    MaxRows = 1
    UserWallets <- MCUserWallets
    StoreWallets <- MCStoreWallets
    Instants = {1}
    Ttl = 4
    Faults = {"lost"}
    MaxOutside = 1
    NoRow = NoRow
    NoHash = NoHash
    Chain = "amoy"
    Token = jpyc
    Operator = operator
    Accounts = {operator, customer, shop}
    ZeroAddress = ZeroAddress
    Amounts = {0, 1}
    InitialOwner = operator
    InitialBalance <- MCBalance
    InitialAllowance <- MCAllowance
INVARIANTS
    NoOrphanTransaction
SYMMETRY MCSymmetry
CHECK_DEADLOCK FALSE
