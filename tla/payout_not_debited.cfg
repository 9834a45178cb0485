CONSTANTS
    ann = ann
    h1 = h1
    h2 = h2
    NoUser = NoUser
    Users = {ann}
    MaxRequests = 2
    Amounts = {2}
    Opening = 2
    OpenTotal <- NoOpenTasks
    Handlers = {h1, h2}
    MayStop = FALSE
    Timeouts = FALSE
    DbMayFail = FALSE
    MaxWalletBalance = 0

SPECIFICATION Spec
SYMMETRY Symmetry
\* A run ends when every withdrawal is settled.
CHECK_DEADLOCK FALSE

INVARIANTS
    PaidOutIsDebited
