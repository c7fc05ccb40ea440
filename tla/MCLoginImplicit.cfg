\* A login, then an implicit-flow request of the same browser.
SPECIFICATION LFSpec
CONSTANTS
    Threads = {t1, t2}
    Users = {u1}
    Browsers = {b1}
    Codes = {c1, c2}
    SessionIDs = {s1, s2}
    Prompts = {FALSE}
    Responses = {"code", "token"}
    Paths = {"login"}
    Refusals = FALSE
    Requests <- MCRequests
    NoUser = NoUser
    NoURI = NoURI
    NoCookie = NoCookie
    NoSession = NoSession
    NoRequest = NoRequest
    cl1 = cl1
    cl2 = cl2
    Clients = {cl1, cl2}
    NoClient = NoClient
    DefaultClient = cl2
    Secrets = {}
    NoSecret = NoSecret
    URIs <- MCURIs
    BadURIs <- MCBadURIs
    Scopes <- MCScopes
    Registry <- MCRegistry
    RequireSecretForCodes = FALSE
    AuthCodes <- MCAuthCodes
    RefreshTokens = {}
    DeviceCodes = {}
    UserCodes = {}
    RefreshGrants = {}
    DeviceRequests = {}
    CodeTTL = 1
    RefreshTTL = 1
    DeviceTTL = 1
    SessionTTL = 1
    CookieAge = 2
    MaxTime = 1
    MaxRestarts = 0
SYMMETRY Symmetry
INVARIANTS
    AuthorizeSkipsLoginPage
CHECK_DEADLOCK FALSE
