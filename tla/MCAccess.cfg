SPECIFICATION Spec
CHECK_DEADLOCK FALSE

CONSTANTS
    None = None
    \* AccountLinks
    Owners = {"u1", "u2", "u3"}
    Browsers = {"b1", "b2"}
    SignedInAs <- MCSignedInAs
    Google = {"g"}
    GitHub = {"h1", "h2"}
    States = {"x", "y"}
    Requests = {q1, q2}
    MaxPending = 2
    FlowTtl = 1
    MaxLinkClock = 1
    MaxLogins = 1
    MaxRevision = 1
    MaxLinkGeneration = 2
    \* SignInRoutes
    FlowIds = {"f1", "f2"}
    Visitors = {"b1", "b2"}
    FlowCalls = {q1, q2}
    MaxFlows = 1
    MaxSignIns = 1
    FlowFaults = 1
    \* TeamMemberships
    Groups = {1, 2}
    Classes = {"k1"}
    Syncs = {"s1"}
    MaxAge = 1
    MaxTeamClock = 2
    MaxEdits = 3
    \* WebRoutes
    WebUsers = {"adm", "u"}
    Administrators = {"adm"}
    WebBrowsers = {"b"}
    WebRequests = {q1, q2}
    WebSessions = {"s1", "s2"}
    MaxRev = 2
    WebFaults = 0
    \* StudentAccess
    People = {q1, q2}
    ClassIds = {"c1", "c2"}
    LegacyIds = {"l"}
    Subjects = {"e1", "e2"}
    Works = {"w"}
    Rows = {"t"}
    MaxAccessEdit = 2
    \* RateLimit
    Workers = {"w1", "w2"}
    Addresses = {"a", "b", "x"}
    Trusted = {"x"}
    MaxHops = 1
    Rule <- MCRule
    MaxCounters = 3
    MaxEpoch = 3
    RateFaults = 1
    \* PairingClient
    PairingLife = 3
    RequestTime = 2
    MaxTime = 6
    MaxSent = 5
    ClientFaults = 2
    \* HelpProvider
    HelpThreads = {q1, q2}
    MaxTurns = 1
    ProviderFaults = 1

SYMMETRY Symmetry
INVARIANT FlowsStayInTheirBrowser
INVARIANT HelpCallsAreContained
INVARIANT SessionsAreBound
INVARIANT LimitHolds
INVARIANT SilentExitIsLoggedOut
PROPERTY LinksAreSafe
PROPERTY TeamsFollowGitHub
PROPERTY AccessIsOwn
