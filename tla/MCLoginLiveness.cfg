\* Two requests of every kind from one browser.
SPECIFICATION LFFairSpec
CONSTANTS
    Threads = {t1, t2}
    Users = {u1}
    Browsers = {b1}
    Codes = {c1, c2}
    SessionIDs = {s1, s2}
    Prompts = {TRUE, FALSE}
    Responses = {"code", "token", "other"}
    Paths = {"login", "authorize"}
    Refusals = TRUE
    Requests <- MCRequests
    NoUser = NoUser
    NoURI = NoURI
    NoCookie = NoCookie
    NoSession = NoSession
    NoRequest = NoRequest
    cl1 = cl1
    cl2 = cl2
    Clients = {cl1, cl2}
    NoClient = NoClient
    DefaultClient = cl2
    Secrets = {}
    NoSecret = NoSecret
    URIs <- MCURIs
    BadURIs <- MCBadURIs
    Scopes <- MCScopes
    Registry <- MCRegistry
    RequireSecretForCodes = FALSE
    AuthCodes <- MCAuthCodes
    RefreshTokens = {}
    DeviceCodes = {}
    UserCodes = {}
    RefreshGrants = {}
    DeviceRequests = {}
    CodeTTL = 1
    RefreshTTL = 1
    DeviceTTL = 1
    SessionTTL = 1
    CookieAge = 2
    MaxTime = 2
    MaxRestarts = 1
INVARIANTS
    LFTypeOK
    SignOnEarned
    LiveSessionsAreReachable
PROPERTIES
    EveryLoginAnswered
CHECK_DEADLOCK FALSE
