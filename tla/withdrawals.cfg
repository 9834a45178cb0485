CONSTANTS
    ann = ann
    h1 = h1
    h2 = h2
    NoUser = NoUser
    Users = {ann}
    MaxRequests = 2
    Amounts = {1, 2}
    Opening = 2
    OpenTotal <- NoOpenTasks
    Handlers = {h1, h2}
    MayStop = TRUE
    Timeouts = TRUE
    DbMayFail = TRUE
    MaxWalletBalance = 3

SPECIFICATION FairSpec
\* A run ends when every withdrawal is settled.
CHECK_DEADLOCK FALSE

INVARIANTS
    WithdrawalsTypeOK
    Solvent
PROPERTIES
    WithdrawalKept
    WithdrawalSettles
