CONSTANTS
    ann = ann
    bob = bob
    cat = cat
    t1 = t1
    t2 = t2
    h1 = h1
    h2 = h2
    NoUser = NoUser
    NoTask = NoTask
    Users = {ann, bob, cat}
    Tasks = {t1, t2}
    MaxApps = 2
    MaxRows = 3
    Handlers = {h1, h2}
    Prices = {1, 2}
    Offers = {0, 1}
    Amounts = {3}
    Depositors = {ann}
    DepositCap = 3
    PlatformFee <- HalfFee
    MaxWalletBalance = 0
    DbMayFail = TRUE

SPECIFICATION Spec
SYMMETRY Symmetry
\* A run ends when nobody has anything left to do.
CHECK_DEADLOCK FALSE

INVARIANTS
    TypeOK
    Conservation
    LifetimeTotals
    EscrowBacked
    EarningsBacked
    ChargedAndPaidOnce
    StatusMatchesMoney
    TaskerWasAccepted
PROPERTIES
    SettledIsFinal
    PromiseKept
