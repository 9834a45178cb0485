CONSTANTS
    ann = ann
    bob = bob
    a1 = a1
    b1 = b1
    k1 = k1
    NoConn = NoConn
    Users = {ann, bob}
    Conns = {a1, b1}
    Owner <- OwnerOf
    Conversations = {k1}
    Members <- BothAreMembers
    SendCap = 1
    BroadcastCap = 2
    MaxMessages = 2
    MaxInputs = 4

SPECIFICATION FairSpec
\* The process may end.
CHECK_DEADLOCK FALSE

PROPERTIES
    EveryoneInRoomGetsIt
