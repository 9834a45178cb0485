CONSTANTS
    ann = ann
    bob = bob
    t1 = t1
    t2 = t2
    h1 = h1
    NoUser = NoUser
    NoTask = NoTask
    Users = {ann, bob}
    Tasks = {t1, t2}
    MaxApps = 1
    MaxRows = 3
    Handlers = {h1}
    Prices = {2}
    Offers = {0}
    Amounts = {4}
    Depositors = {ann}
    DepositCap = 4
    PlatformFee <- HalfFee
    MaxWalletBalance = 0
    DbMayFail = TRUE

SPECIFICATION Spec
SYMMETRY Symmetry
\* A run ends when nobody has anything left to do.
CHECK_DEADLOCK FALSE

INVARIANTS
    NeverPaidTwice
