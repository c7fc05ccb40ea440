\* Two logins and one more request from one browser, code flow.
SPECIFICATION LFSpec
CONSTANTS
    Threads = {t1, t2, t3}
    Users = {u1, u2}
    Browsers = {b1}
    Codes = {c1, c2, c3}
    SessionIDs = {s1, s2, s3}
    Prompts = {FALSE}
    Responses = {"code"}
    Paths = {"login"}
    Refusals = FALSE
    Requests <- MCRequests
    NoUser = NoUser
    NoURI = NoURI
    NoCookie = NoCookie
    NoSession = NoSession
    NoRequest = NoRequest
    cl1 = cl1
    cl2 = cl2
    Clients = {cl1, cl2}
    NoClient = NoClient
    DefaultClient = cl2
    Secrets = {}
    NoSecret = NoSecret
    URIs <- MCURIs
    BadURIs <- MCBadURIs
    Scopes <- MCScopes
    Registry <- MCRegistry
    RequireSecretForCodes = FALSE
    AuthCodes <- MCAuthCodes
    RefreshTokens = {}
    DeviceCodes = {}
    UserCodes = {}
    RefreshGrants = {}
    DeviceRequests = {}
    CodeTTL = 1
    RefreshTTL = 1
    DeviceTTL = 1
    SessionTTL = 1
    CookieAge = 2
    MaxTime = 2
    MaxRestarts = 0
SYMMETRY Symmetry
INVARIANTS
    SSTypeOK
    RevokedSessionsStayOut
    SlidingLifetime
    SignOnEarned
    SsoServed
    LiveSessionsAreReachable
CHECK_DEADLOCK FALSE
