CONSTANTS
    ann = ann
    o1 = o1
    o2 = o2
    r1 = r1
    r2 = r2
    h1 = h1
    NoUser = NoUser
    NoOrder = NoOrder
    Users = {ann}
    Orders = {o1, o2}
    Transfers = {r1, r2}
    Amounts = {2}
    Handlers = {h1}
    MayStop = FALSE
    MaxWalletBalance = 3

SPECIFICATION Spec
SYMMETRY Symmetry
\* A run ends when every link is settled.
CHECK_DEADLOCK FALSE

INVARIANTS
    ProcessedIsCredited
