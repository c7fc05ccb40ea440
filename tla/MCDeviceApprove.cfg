\* Two people approve two devices whose user codes may coincide.
SPECIFICATION DFSpec
CONSTANTS
    DeviceCodes = {d1, d2}
    UserCodes = {uc1, uc2}
    DeviceRequests = {req1}
    Users = {u1, u2}
    NoUser = NoUser
    Polls = {p1}
    Approvals = {a1, a2}
    NoDevice = NoDevice
    NoTyped = NoTyped
    Codes = {}
    RefreshTokens = {}
    AuthCodes = {}
    RefreshGrants = {}
    CodeTTL = 1
    RefreshTTL = 1
    DeviceTTL = 1
    MaxTime = 2
    MaxRestarts = 0
SYMMETRY Symmetry
INVARIANTS
    TokensForApprover
CHECK_DEADLOCK FALSE
