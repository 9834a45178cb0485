CONSTANTS
    ann = ann
    o1 = o1
    o2 = o2
    r1 = r1
    r2 = r2
    r3 = r3
    h1 = h1
    h2 = h2
    NoUser = NoUser
    NoOrder = NoOrder
    Users = {ann}
    Orders = {o1, o2}
    Transfers = {r1, r2}
    Amounts = {1, 2}
    Handlers = {h1, h2}
    MayStop = TRUE
    MaxWalletBalance = 3

SPECIFICATION FairSpec
\* A run ends when every link is settled.
CHECK_DEADLOCK FALSE

INVARIANTS
    DepositsTypeOK
    NeverOverCredited
PROPERTIES
    DepositKept
    EveryTransferCredited
