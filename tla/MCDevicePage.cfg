\* One device, one submission of the approval page.
SPECIFICATION DFSpec
CONSTANTS
    DeviceCodes = {d1}
    UserCodes = {uc1}
    DeviceRequests = {req1}
    Users = {u1, u2}
    NoUser = NoUser
    Polls = {p1}
    Approvals = {a1}
    NoDevice = NoDevice
    NoTyped = NoTyped
    Codes = {}
    RefreshTokens = {}
    AuthCodes = {}
    RefreshGrants = {}
    CodeTTL = 1
    RefreshTTL = 1
    DeviceTTL = 1
    MaxTime = 2
    MaxRestarts = 0
SYMMETRY Symmetry
INVARIANTS
    AuthorizedPageIsTrue
CHECK_DEADLOCK FALSE
