\* One sign-in rotated by several requests, revoked while they run.
SPECIFICATION TESpec
CONSTANTS
    Codes = {c1}
    RefreshTokens = {k1, k2, k3}
    Threads = {t1, t2, t3}
    Sids = {sid1}
    Kinds = {"authorization_code", "refresh_token", "password"}
    DeviceCodes = {}
    UserCodes = {}
    DeviceRequests = {}
    u1 = u1
    Users = {u1}
    NoUser = NoUser
    cl1 = cl1
    cl2 = cl2
    Clients = {cl1, cl2}
    NoClient = NoClient
    OnlineCodes = TRUE
    AskedClients = {cl1, cl2, NoClient}
    DefaultClient = cl2
    s1 = s1
    Secrets = {s1}
    NoSecret = NoSecret
    v1 = v1
    h1 = h1
    Strings = {v1, h1}
    Empty = Empty
    Digest <- MCDigest
    URIs <- MCURIs
    Scopes <- MCScopes
    Registry <- MCRegistry
    RequireSecretForCodes = TRUE
    AuthCodes <- MCAuthCodes
    RefreshGrants <- MCRefreshGrants
    Requests <- MCRequests
    NoToken = NoToken
    NoGrant = NoGrant
    NoRequest = NoRequest
    CodeTTL = 1
    RefreshTTL = 1
    DeviceTTL = 1
    ReplayTTL = 1
    MaxTime = 2
    MaxRestarts = 1
SYMMETRY Symmetry
INVARIANTS
    OneBearer
    RevokedStaysRevoked
    GrantsKeepOrigin
PROPERTIES
    ImplementsTokenFamily
CHECK_DEADLOCK FALSE
