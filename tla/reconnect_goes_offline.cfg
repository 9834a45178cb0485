CONSTANTS
    ann = ann
    bob = bob
    a1 = a1
    a2 = a2
    b1 = b1
    k1 = k1
    NoConn = NoConn
    Users = {ann, bob}
    Conns = {a1, a2, b1}
    Owner <- OwnerOf
    Conversations = {k1}
    Members <- BothAreMembers
    SendCap = 1
    BroadcastCap = 1
    MaxMessages = 1
    MaxInputs = 3

SPECIFICATION Spec
SYMMETRY Symmetry
\* The process may end.
CHECK_DEADLOCK FALSE

INVARIANTS
    ConnectedIsOnline
