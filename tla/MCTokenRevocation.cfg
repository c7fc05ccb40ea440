\* Tokens of every directory of rules are revoked and presented; nothing else
\* happens to the users.
SPECIFICATION MCSpec
CONSTANTS
    Threads = {}
    UserIDs = {"u1", "u2", "u3"}
    Emails = {"e1", "e2"}
    Names = {"n1", "n2"}
    RoleIDs <- MCRoleIDs
    RoleNames <- MCRoleNames
    Texts = {"d1", "d2"}
    AppIDs = {"app"}
    Entries <- MCEntries
    Pieces <- MCPieces
    EmptyEntry = "none"
    Seeds <- MCSeeds
    NoText = NoText
    BuiltinText = "d1"
    BuiltinApps <- MCApps
    Requests <- MCRequests
    MaxCrashes = 1
    NoRequest = NoRequest
    NoRow = NoRow
    Probes = {v1}
    RuleFiles <- MCRuleFiles
    ExtraClaims <- MCExtraClaims
    Blank = Blank
    Lifetime = 1
    MaxTime = 2
    MaxTokens = 1
    ClientSubject = ClientSubject
    Words <- MCWords
    NoToken = NoToken
CONSTRAINT Budget
INVARIANTS
    RevokedTokensRefused
CHECK_DEADLOCK FALSE
