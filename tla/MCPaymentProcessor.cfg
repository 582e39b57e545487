SPECIFICATION Spec
CONSTANTS
    shop = shop
    customer = customer
    Accounts = {shop, customer}
    ZeroAddress = ZeroAddress
    Tokens = {jpyc}
    PaymentIds = {p1, p2}
    Amounts = {0, 1}
    InitialOwner = shop
    InitialOperator = shop
    InitialToken = jpyc
    InitialBalance <- MCBalance
    InitialAllowance <- MCAllowance
INVARIANTS
    TypeOK
    OneEventPerProcessedPayment
PROPERTIES
    EventMeansFundsMoved
