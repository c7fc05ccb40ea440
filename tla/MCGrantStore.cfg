\* Two codes, a refresh token and two devices, whose user codes may coincide.
SPECIFICATION GSSpec
CONSTANTS
    Codes = {c1, c2}
    RefreshTokens = {t1}
    DeviceCodes = {d1, d2}
    UserCodes = {uc1, uc2}
    AuthCodes = {ac1}
    RefreshGrants = {rg1}
    DeviceRequests = {req1}
    Users = {u1}
    NoUser = NoUser
    CodeTTL = 1
    RefreshTTL = 1
    DeviceTTL = 1
    MaxTime = 3
SYMMETRY Symmetry
INVARIANTS
    GSTypeOK
    SpentStaysOut
    UserCodeIndexSound
    UserCodeIndexComplete
PROPERTIES
    NoEarlyDrop
CHECK_DEADLOCK FALSE
