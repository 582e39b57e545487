SPECIFICATION Spec
CONSTANTS
    u1 = u1
    s1 = s1
    u9 = u9
    w1 = w1
    w2 = w2
    Users = {u1}
    Stores = {s1}
    Strangers = {u9}
    Addresses = {a1}
    Networks = {amoy}
    ChainIds = {80002}
    Tokens = {jpyc}
    Workers = {w1, w2}
    Clients <- MCAnyClient
    Ttl = 1
    JstOffset = 3
    ServerOffset = 3
    MaxNonces = 2
    MaxWallets = 2
    MaxTime = 2
    None = None
INVARIANTS
    NonceIsOneTime
CHECK_DEADLOCK FALSE
