CONSTANTS
    q1 = q1
    q2 = q2
    Texts = {"", "a"}
    Categories = {"0", "1"}
    Queries = {q1, q2}
    MaxPages = 1
    a1 = a1
    Accounts = {a1}
    NoAccount = NoAccount
    Typed = {2000, 12000}
    Funds = 12000
    PageRows = 2
    MaxRows = 4
    l1 = l1
    l2 = l2
    Loads = {l1, l2}
    home = home
    away = away
    Places = {home, away}
    Home = home
    km = km
    world = world
    Radii = {km, world}
    All = world
    Rings = {1}
    NoPlace = NoPlace
    MaxGeocoding = 1
    Applicants = {"dan", "eve"}
    Prices = {2, 3}
    Offers = {0, 3}
    HireCalls = {"h1", "h2"}
    f1 = f1
    f2 = f2
    FormCalls = {f1, f2}
    MaxPresses = 2
    p1 = p1
    p2 = p2
    Polls = {p1, p2}
    MaxSeconds = 2
    MaxRedirect = 2
    Notes = {"n1", "n2"}
    s1 = s1
    s2 = s2
    ShellCalls = {s1, s2}
    Notices = {"saved"}
    Nothing = Nothing
    JobCalls = {"j1", "j2"}
    MaxNotices = 3
    Limit = 1
    Points = {"p", "q"}
    Nowhere = "nowhere"
    Searches = {"s", "t"}
    Asks = {"k1", "k2"}
    FirstDays = {0, 3, 6}
    LastDay = 1
    ClockHours = {8, 19, 22}
    ChosenHours = {9, 10}
    Progress = {0, 24, 52, 80}
    MaxRuns = 2
    People = {"u", "v"}
    OwnCalls = {"o1", "o2"}
    MaxVersion = 2
    Stranger = "stranger"

SPECIFICATION PagesSpec
\* Pages are left.
CHECK_DEADLOCK FALSE

INVARIANTS
    PagesTypeOK
    ListsFollowTheirFilter
    ShownIsStored
    ChargedIsAgreed
    OnePerPress
    PickedIsUsed
    SceneryFollows

PROPERTIES
    PaidStaysPaid
