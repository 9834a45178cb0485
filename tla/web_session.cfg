CONSTANTS
    ann = ann
    bob = bob
    c1 = c1
    c2 = c2
    Accounts = {ann, bob}
    Calls = {c1, c2}
    Nobody = Nobody
    n1 = n1
    n2 = n2
    Numbers = {n1, n2}
    s1 = s1
    s2 = s2
    Steps = {s1, s2}
    NoNumber = NoNumber
    w1 = w1
    w2 = w2
    Sockets = {w1, w2}
    NoSocket = NoSocket
    MaxRetries = 2
    MaxMessages = 3
    MaxFrames = 2
    MaxTimers = 2
    e1 = e1
    e2 = e2
    Emails = {e1, e2}
    r1 = r1
    r2 = r2
    EmailCalls = {r1, r2}
    Unknown = Unknown

SPECIFICATION WebSpec
\* The pages the two links open end with what they show.
CHECK_DEADLOCK FALSE

INVARIANTS
    WebTypeOK
    RememberedTogether
    PrivatePageHasToken
    AccountsStayApart
    CodeIsForWhatIsShown
    OneSocket
    ShownOnceInOrder

PROPERTIES
    EveryCallEnds
    ReconnectingEnds
