SPECIFICATION UseFairSpec
CONSTANTS
    u1 = u1
    s1 = s1
    u9 = u9
    w1 = w1
    w2 = w2
    Users = {u1}
    Stores = {s1}
    Strangers = {u9}
    Addresses = {a1, a2}
    Networks = {amoy}
    ChainIds = {80002}
    Tokens = {jpyc, usdc}
    Cashiers = {c1, c2}
    Workers = {w1, w2}
    Clients <- MCOwnClient
    Ttl = 1
    JstOffset = 3
    ServerOffset = 3
    MaxNonces = 2
    MaxWallets = 2
    MaxTime = 2
    None = None
INVARIANTS
    TypeOK
    WalletIsProven
    NonceUsedIffWallet
    NonceIsOneTime
    OneWalletPerChain
    PaymentsAreProven
PROPERTIES
    NonceLivesTenMinutes
    DeletionTakesHold
CHECK_DEADLOCK FALSE
