\* Two polls race for two devices that one person may approve.
SPECIFICATION DFSpec
CONSTANTS
    DeviceCodes = {d1, d2}
    UserCodes = {uc1, uc2}
    DeviceRequests = {req1}
    Users = {u1}
    NoUser = NoUser
    Polls = {p1, p2}
    Approvals = {a1}
    NoDevice = NoDevice
    NoTyped = NoTyped
    Codes = {}
    RefreshTokens = {}
    AuthCodes = {}
    RefreshGrants = {}
    CodeTTL = 1
    RefreshTTL = 1
    DeviceTTL = 1
    MaxTime = 2
    MaxRestarts = 1
SYMMETRY Symmetry
INVARIANTS
    DFTypeOK
    OneRedemption
    DenialSticks
CHECK_DEADLOCK FALSE
