CONSTANTS
    ann = ann
    bob = bob
    t1 = t1
    h1 = h1
    NoUser = NoUser
    NoTask = NoTask
    Users = {ann, bob}
    Tasks = {t1}
    MaxApps = 1
    MaxRows = 2
    Handlers = {h1}
    Prices = {2}
    Offers = {0}
    Amounts = {2}
    Depositors = {ann}
    DepositCap = 2
    PlatformFee <- HalfFee
    MaxWalletBalance = 0
    DbMayFail = TRUE

SPECIFICATION FairSpec
\* A run ends when nobody has anything left to do.
CHECK_DEADLOCK FALSE

PROPERTIES
    DeletedIsCancelled
