\* Two requests and one crash, which may fall into the start; or a token of any
\* directory of rules, a request that presents it, and requests about its user.
SPECIFICATION MCSpec
CONSTANTS
    Threads = {t1, t2}
    UserIDs = {"u1", "u2", "u3"}
    Emails = {"e1", "e2"}
    Names = {"n1", "n2"}
    RoleIDs <- MCRoleIDs
    RoleNames <- MCRoleNames
    Texts = {"d1", "d2"}
    AppIDs = {"app"}
    Entries <- MCEntries
    Pieces <- MCPieces
    EmptyEntry = "none"
    Seeds <- MCSeeds
    NoText = NoText
    BuiltinText = "d1"
    BuiltinApps <- MCApps
    Requests <- MCRequests
    MaxCrashes = 1
    NoRequest = NoRequest
    NoRow = NoRow
    Probes = {v1}
    RuleFiles <- MCRuleFiles
    ExtraClaims <- MCExtraClaims
    Blank = Blank
    Lifetime = 1
    MaxTime = 2
    MaxTokens = 1
    ClientSubject = ClientSubject
    Words <- MCWords
    NoToken = NoToken
SYMMETRY Symmetry
CONSTRAINT Budget
INVARIANTS
    MATypeOK
    OnlyRacesLeaveOrphans
    RolelessOnlyIfCut
    PermissionsBacked
    PatchesStick
    PatchAnswersItsWrite
    AcceptedExactlyWhileGood
    ClaimsFollowRules
    ProfileFollowsPatch
PROPERTIES
    SeedConverges
CHECK_DEADLOCK FALSE
