# fake-auth in TLA+

fake-auth is an Auth0-compatible mock server in Go: it keeps users in SQLite,
keeps codes, refresh tokens, device codes and login sessions in memory, and
issues RS256 JWTs. Every HTTP request is a goroutine; requests share the stores
and nothing orders them. This directory models that concurrent core, checks it
with TLC on small instances and proves its safety properties with TLAPS for every
instance. The user database is modelled statement by statement under the
management API.

Line numbers refer to `src/internal/handlers/handlers.go` unless a file is named.

## 1. Inventory

| part | state | operations | interaction |
|---|---|---|---|
| grant store, `internal/grants/store.go` | maps `codes`, `refresh`, `devices`, `userCodes` under one mutex | Save/Consume code and refresh token, Revoke, Save/Get/Authorize/Deny/Consume device code; expired entries are cleaned inside Save and Get | called by every OAuth handler; hands out pointers to `DeviceCode` objects that callers read after the unlock |
| session store, `internal/sessions/sessions.go` | map of sessions under one mutex | Create, Get (moves the deadline), Revoke | /authorize, /login, /v2/logout |
| client registry, `internal/clients/config.go` | map filled from `CLIENT_REGISTRY` at start | validators | /authorize, code exchange |
| PKCE, `internal/pkce/pkce.go` | none | Verify | code exchange |
| token endpoint (204-538) and revocation (540-554) | `codeReplayCache` under its own mutex | authorization_code, refresh_token, password, client_credentials, device_code; revoke | grant store, database, rules, issuer |
| device flow (586-756) | `DeviceCode` fields | request, approval page, poll | grant store, database |
| login (758-1157) and logout (1796-1830) | the browser's cookie | /authorize (code, implicit, prompt=none, single sign-on), /login, logout | session store, grant store, registry, database |
| user database, `internal/store/sqlite.go` | tables users, roles, user_roles, user_blocks, logs, clients, connections | CRUD, block, seed, migrate; several statements per operation, no transaction | every handler that needs a user |
| management API (1159-1655) | none of its own | users, roles, blocks, clients, logs | database |
| issuer, `internal/token/jwt.go`; introspect, userinfo, tokeninfo | key pair generated at start | Issue, IssueIDToken, Validate | token endpoint, resource endpoints |
| rules, `internal/rules/runner.go` | JavaScript files | Run | before signing: changes email, names and claims |
| audit, metrics, router, `main.go` | counters, log lines, wiring | | |

What is hard here:

- **Check, then act, without a lock across.** An exchange consumes a code, then
  checks it, queries the database, saves a refresh token and fills the replay
  cache, each under a different lock or none.
- **Cleanup inside other callers' operations**, against deadlines that were
  computed before the mutex was taken.
- **An index keyed by a random code** that is overwritten and deleted by code,
  not by device.
- **A data race**: a poll reads two fields of a device that approvals and
  denials write.
- **Restarts**, which empty the stores and change the signing key while browsers,
  clients and the database remember.
- **Several statements without a transaction**, some with their error dropped:
  creating and deleting users, deleting roles, seeding. Any of them may fail, and
  the process may stop between two of them.
- **Read, change, write back** in the PATCH handlers, and a second read whose
  result is used unchecked.

What makes each part correct: one-time credentials are one-time (stores); a
sign-in has one bearer at a time, unchanged in user, client and scope (token
endpoint); a device is redeemed once, for somebody who approved it, and not after
it was denied (device flow); single sign-on is earned by a password and ended by
logout (login); and every request is answered. Rows of a user who is gone, users
without roles and permissions without a role have an explanation, a PATCH is not
undone by another one and an interrupted seeding is completed by the next start
(database, management API); a token is accepted exactly while its process runs
and its lifetime lasts, and carries what the rules gave it, except where the issuer
has the last word (issuer, rules).

## 2. Modules

| module | models | composes |
|---|---|---|
| `Maps` | Go maps and tables with a primary key | |
| `Runtime` | the clock, cleaning of expired entries | `Maps` |
| `GrantStore` | every method of the grant store, one action each | `Runtime` |
| `SessionStore` | every method of the session store | `Runtime` |
| `ClientRegistry`, `Pkce` | the validators, as operators over a constant configuration | |
| `TokenFamily` | abstract specification: the credentials of a sign-in are a baton | |
| `TokenEndpoint` | concurrent exchanges, rotations, password grants, revocation, the replay cache | `GrantStore`, `ClientRegistry`, `Pkce`; implements `TokenFamily` |
| `DeviceFlow` | device requests, approval page, polls | `GrantStore` |
| `LoginFlow` | /authorize, /login, logout, cookies | `GrantStore`, `SessionStore`, `ClientRegistry` |
| `UserStore` | the SQL statements, the joins, migration and seeding, as operators on the database | `Maps` |
| `ManagementApi` | sign-up and the writing /api/v2 handlers, one action per statement; start, seeding, crashes | `UserStore` |
| `Rules` | the rules runner, as operators on a user's email, names and claims | `Maps` |
| `TokenValidation` | signed tokens, the key across restarts, introspection, userinfo and tokeninfo | `ManagementApi`, `Rules` |
| `GrantStoreProofs`, `SessionStoreProofs` | theorems about the stores under arbitrary callers | |
| `DeviceFlowProofs`, `TokenEndpointProofs`, `LoginFlowProofs` | theorems about the request modules | the stores' proofs |
| `ManagementApiProofs`, `ManagementRowsProofs` | theorems about the database: relations, then rows | |
| `TokenValidationProofs` | theorems about tokens and profiles | `ManagementRowsProofs` |
| `MC*` | instances for TLC | |

**Conventions.** A Go map is a function on the keys present. Time is a natural
number; `now > deadline` is `time.Now().After(deadline)`. A critical section reads
one time, and the clock may move between any two steps. A Save method computes
its deadline before it locks, so its action takes the clock reading `stamp` as a
parameter: any `stamp <= now` under arbitrary callers, a step of its own in the
request modules. Random identifiers (`ac_`, `rt_`, `dc_`, `sid_` and a uuid or 16
bytes) are never repeated; eight-letter user codes may be. A definition whose
comment begins with "Slip" is a plausible mistake in the definition after it; it
takes no part in a specification and is there to show that a property can fail.
`used`, `spent`, `origin`, `killed`, `opened`, `lastUse`, `ended`, `stray`, `bare`,
`unbacked`, `asked`, `overlapped`, `target`, `revoked`, and the fields `seen`, `at`,
`marked`, `idle`, `loggedOut`, `ssoUser`, `own`, `young`, `revoked`, `after`, `run`,
`rules`, `row`, `scope`, `kind` are history: nothing the code does depends on them.

**GrantStore.** `dcs` holds the `DeviceCode` objects, `devices` the keys of the map:
a handler may hold an object that is no longer in the map. `normalized` maps the
spellings of a user code (as shown, lower case, without hyphen) to one key.
Denial ignores the deadline and consumption ignores denial, as in the code.

**TokenEndpoint.** A request's `pc` is the next access to shared state:

    ExchangeCode  -> ReadReplay                              (code not there)
                  -> LookupUser -> [ReadClock -> SaveRefresh] -> CacheResponse
    RefreshExchange / PasswordGrant -> [ReadClock -> SaveRefresh]

The bracket is taken when the scope has `offline_access`. An access token is named
by the request that minted it. `IssueCode` stands for /authorize and /login (which
`LoginFlow` models in detail); signing and rules change no shared state and are
part of the step before the next access. A replay entry is compared with the
clock in the step that reads it.

**DeviceFlow.** A poll is `PollGet`, `PollCheck`, `PollConsume`, `PollLookup`.
`PollCheck` is the data race: each field reads as it was at the `Get` or as it is
now. The fields only go from FALSE to TRUE, so these are all the values the
read can return.

**LoginFlow.** A request that logs in goes through `SessionStamp`, `CreateSession`,
`CodeStamp`, `IssueCode`; a single sign-on through `AuthorizeCookie`,
`LookupSessionUser`, `CodeStamp`, `IssueCode`. The browser stores the cookie when
the response arrives and sends it until its own age is over. A request gives
both, one or none of username and password, as the handlers tell them apart.
`BadURIs` are redirect URIs that `url.Parse` rejects: /authorize refuses them, while
`handleLogin` (1060) goes on with a nil URL, creates the session and, in the code
flow, saves the code, and panics in `Redirect` before the response with the
cookie is written.

**UserStore and ManagementApi.** A database is a record of three tables with a
row per id (users, roles, clients) and three relations (`userRoles`, `rolePerms`,
`blocks`). A statement is a function on it; `Insertable` and `Updatable` are the
UNIQUE constraints, and no statement looks at another table, because foreign keys
are never enabled. A request's `pc` is its next statement:

    patch        select -> update -> reselect            (roles: no reselect)
    create_user  insert_user -> insert_pair
    delete_user  delete_roles -> delete_blocks -> delete_user
    delete_role  delete_perms -> delete_members -> delete_role
    assign, remove    one statement for each role named
    create_role, block, unblock    one statement

Each statement may fail, whatever the database holds (`Fails`): the request's
context is cancelled, the file stays locked, the disk is full. `Fails` and
`Succeeds` then follow the handler: some errors end the request, some are dropped
(`InsertUserRole`, `ModifyRoles`, the first two of `DeleteRole`, the second read of a
PATCH, which panics on a nil row). `StartStatement` runs the seeds one by one,
`SeedFails` is an error of the seed file's statements, and `Crash` may fall between
any two statements, those of a start included; the file stays and the start
begins again. A client's list is stored joined by commas and read back split
(`ReadBack`, with `Pieces` giving what lies between the commas of an entry). An entry
of the seed file that the code skips is a statement on table `none`.

**Rules and TokenValidation.** A script is what it does: fields of the user (email,
name, nickname) and claims it assigns, what it hands to the callback, whether it
throws. The fields are copied for each script and come back with the user that it
hands over. The claim maps are the runner's own, except that a nil map, which is what
the handlers start with and what a foreign object leaves, is replaced by an empty one
the runner keeps no hold of (`shared` is FALSE). So claims assigned in place survive
without a callback and through an error once an earlier rule has handed a user back,
and are lost before that. The first error ends the run; its caller drops the error and
uses the user as it is by then. `Blank` stands for the empty string and for a value
of a type the code does not look for.

A token is its claims and the key of the process that signed it. `Issue` copies the
custom claims over its own (jwt.go:75). `IssueIDToken` does so too (123) and then sets
email and names over them (130-147), each if the scope asks for it and the user has
it: `ProfileClaims`. Scopes are told apart by that alone; `Words` is `SplitN` of a name at
the first blank. `UserTokens` are what a sign-in by password, code, device or
/login makes, `RenewedTokens` what a refresh makes, without rules and, if its query
fails, without the user's fields. `InForce` is what `jwt.Parse` checks of exp and nbf.
`Introspect` answers in one step; /userinfo and /tokeninfo validate the token, refuse
an empty subject (`PresentToken`) and then read the row (`AnswerProfile`), falling back
to the claims. `RevokeSigned` is /oauth/revoke for a signed token, which changes
nothing but the history.

## 3. Runs

All runs allow the state space to end (`CHECK_DEADLOCK FALSE`): a finite set of
requests is sent and the clock is bounded, after which the server is idle.

| run | instance | properties |
|---|---|---|
| `grant_store` | 2 codes, 1 refresh token, 2 devices, 2 user codes, lifetimes 1, clock to 3 | `SpentStaysOut` (consumed or revoked is gone for good), `NoEarlyDrop` (a cleanup drops only what has expired), `UserCodeIndexSound` and `UserCodeIndexComplete` (index and devices agree), `GSTypeOK` |
| `token_exchange` | 3 concurrent exchanges of 2 codes, right and wrong client, 1 restart | `OneMintPerCode`, `OneBearer`, `ReplayFaithful`, `LateDuplicateServed`, `TETypeOK` |
| `token_rotation` | 3 requests of any kind on one sign-in, revocations, 1 restart | `OneBearer`, `RevokedStaysRevoked`, `GrantsKeepOrigin`, and `ImplementsTokenFamily`: the refinement of `TokenFamily` |
| `device_redeem` | 2 polls, 2 devices, 1 approval, denials, 1 restart | `OneRedemption`, `DenialSticks`, `DFTypeOK` |
| `device_approve` | 2 people, 2 devices with equal or different user codes | `TokensForApprover` |
| `login` | 3 requests of one browser, 2 users, logouts and deletions at any time | `SignOnEarned`, `SsoServed`, `LiveSessionsAreReachable`, and of the session store `SlidingLifetime`, `RevokedSessionsStayOut`, `SSTypeOK` |
| `login_liveness` | 2 requests of every kind (implicit, prompt=none, refused, half credentials, unparsable redirect URI), 1 restart, weak fairness | `EveryLoginAnswered`, `SignOnEarned`, `LiveSessionsAreReachable`, `LFTypeOK` |
| `management` | 2 of 18 kinds of request, 3 users, 3 roles, 1 client, failing statements, 1 crash; 1 token of any kind under 8 directories of rules, 1 presenting request, revocations, changes of the token's user | see below |

`management` checks, on `ManagementApi`:

- `OnlyRacesLeaveOrphans`: roles or a block of a user who does not exist were
  written while the user was absent or between two statements of its deletion.
  The order of `DeleteUser`'s statements is what makes errors and crashes harmless.
- `RolelessOnlyIfCut`: a user without roles lost them to a request, or its creation
  or seeding was cut short.
- `PermissionsBacked`: a user's permissions come from the user's roles, except for
  roles whose permissions a failed DELETE left, or a start that found the seeded
  name taken and inserted the permissions without the role. Both happen.
- `PatchesStick`: every column holds what was last asked for; for roles, unless two
  PATCHes of the role overlapped (`UpdateRole` writes both columns).
- `PatchAnswersItsWrite`: a PATCH is answered with what it wrote unless another one
  came in between, the user was deleted (and perhaps created anew) or the list does
  not survive storing; it panics only after an error or a DELETE of the user.
- `SeedConverges`: README.md:66, "Idempotent (INSERT OR IGNORE)": the start after a
  crash ends with the database an uninterrupted start would have made.
- `MATypeOK`: ids are primary keys and UNIQUE columns are unique.

and on its composition with `Rules` in `TokenValidation`:

- `AcceptedExactlyWhileGood`: a token is accepted by the process that issued it
  alone, and, unless a rule or `ACCESS_TOKEN_EXTRA_CLAIMS` set its issuer, expiry or
  start (nbf), exactly within its lifetime, provided it names a subject where one is
  asked for. The rules of the run set each of these claims.
- `ClaimsFollowRules`: `IssuerSets` says which claims of an ID token the issuer sets
  whatever the rules say, and the email and names in them are those that the rules
  left in the user's fields (`Final`, `FinalName`). Every other claim is the
  environment's, or that of the last script that counts, or the issuer's first.
  `Counting` says which scripts count for a claim, `Assigning` which for a field.
- `ProfileFollowsPatch`: a profile shows the email of a PATCH answered before the
  request, unless its query failed or another request deletes the user or sets
  the email.

Four runs end in a violation; each shows that the code does something other
than a comment or the documentation says.

- `token_duplicate`: the comment on the replay cache (463) says a duplicate
  exchange gets the same tokens. One that arrives after `ConsumeCode` and before
  the response is cached is answered `invalid_grant`. `LateDuplicateServed` in
  `token_exchange` is what does hold.
- `device_page`: the page says "Device authorized." (668) whatever
  `AuthorizeDeviceCode` returned, for instance for a code that has expired.
- `login_implicit`: README.md:75 says /authorize skips the login page for an
  authenticated user; the implicit flow never looks at the session.
- `token_revocation`: README.md:17 says /oauth/revoke revokes a "refresh or access
  token". `handleRevoke` (548) drops refresh tokens only: an access token that was
  sent there is still accepted (`RevokedTokensRefused`). The run is `management`
  without management requests.

**Bounds.** `MaxTime`, `MaxRestarts`, `Threads`, `Polls`, `Approvals` and the sets of
identifiers bound the instances; they appear only as guards. The lifetimes are
one or two ticks and the clock runs at least one tick past them, so that each
run contains the deadline's own tick, the tick after it, an entry stored with an
older deadline and one saved after the cleanup. Two requests suffice for each
race between a pair of steps; the third adds a bystander whose cleanup or second
rotation interferes. Two devices suffice for a repeated user code. Symmetry is
used over identifiers only, and never in a run with a liveness property.
The seeds of `management` hold an email twice and an entry without one, so that
seeding has rows to ignore. The constraint `Budget` keeps requests that have nothing
to do with a profile apart from tokens; it allows the others (PATCHes of the email and
the name of the token's user, and its DELETE) beside a token that no rule touched and
nobody revoked, an access token or an ID token with the scope "email", and only two of
them or one and a crash: rules see only the row that was read, and revocation changes
nothing. `MCSpec` is `TVSpec` without the tokens that `Budget` would discard at once
and with a clock that waits for a token; no other step reads the clock. `MaxCrashes`, `MaxTokens` and `Probes`
are one each. The directories hold: no rules; another issuer; claims in place before
and after a throw; rules that count for nothing; a foreign object; claims that the
issuer overrides together with a start in the future; an empty subject without an
expiry; an expiry that is no number; and a user without
names under an id that nobody has.

**Fairness.** `LFFairSpec` assumes weak fairness of the steps of a
login request that has begun: the Go scheduler runs every runnable goroutine, no mutex
is held across a step, and SQLite answers. Arrivals, time, deletions and
restarts are not fair. A request that a restart cuts off counts as done: its
connection is closed.

## 4. Proofs

Every theorem holds for every value of the constants: any sets of users, clients,
codes, tokens, devices, sessions, rows, requests and rules, any positive lifetimes,
any number of concurrent requests, restarts and crashes. Each proof module has one
inductive invariant; TLC checks the properties in the runs of section 3, and
checked the strengthenings before they were proved.

`GrantStoreProofs`, under arbitrary callers (`GSSpec`):

- `StoreTyping`: the type invariant is inductive; it includes that everything stored
  was recorded in `used`, which is what makes a fresh identifier absent from the maps.
- `OneTimeUse`: `[]SpentStaysOut`. A save uses a key outside `used`, and `spent` is a
  subset of `used`; `NameAssumption` keeps the three kinds of key apart.
- `IndexSound`: `[]UserCodeIndexSound`. Cleaning and consuming delete by normalized
  user code; each remaining entry leads to a device that was kept, because an
  entry's key is the code of its device.
- `IndexComplete`: `[]UserCodeIndexComplete`, from `AloneIsIndexed` (a stored device
  whose code no other device object was given has its index entry) and
  `CodesAsShown` (devices are saved with codes as shown, so that two devices with
  one key have one code).
- `CleanupDropsOnlyExpired`: `NoEarlyDrop`, the action property.

`SessionStoreProofs`, under arbitrary callers (`SSSpec`):

- `SessionTyping` and `RevokeIsFinal`.
- `SlidingExpiry`: `[]SlidingLifetime`. The property speaks of what `Get` would answer;
  the inductive invariant says why: a stored session's deadline is its last use
  plus the lifetime (`StoredIsFresh`), and a session that is neither stored nor
  revoked was last used more than a lifetime ago (`MissingIsOver`).

The request modules are proved on top of the stores. A first lemma of each shows
that a step of the composition is, for the store, a step under arbitrary callers or
a restart (`StoreMoves`; `GrantMoves` and `SessionMoves` for logins), so the store's invariants carry over;
the rest is about the requests.

`DeviceFlowProofs` (`DFSpec`, invariant `DFInv`): `DeviceFlowTyping`, `RedeemedOnce`,
`DenialRespected`, `ApproverGetsTokens`.

- A poll has a user only after `ConsumeDeviceCode` put its device in `spent`
  (`PollsAreHonest`); a second poll cannot consume what is spent, hence one
  redemption. `PollsAreHonest` also says that a poll that began after a denial is
  still before `PollConsume` and sees the denial in whichever field value the race
  returns.
- `MarksAreApproved`: an authorized device object names a user whose submission
  typed this device's code; it rests on `UserCodeIndexSound`, since the submission
  finds the device through the index.

`TokenEndpointProofs` (`TESpec`, invariant `TEInv`): `EndpointTyping`, `CodeMintsOnce`,
`RotationNeverForks`, `RevocationIsFinal`, `OriginKept`, `ReplayIsFaithful`,
`LateDuplicatesServed`, `EndpointImplementsFamily`.

- `RequestsInPlace` says what a request's fields mean at each `pc`. `OneTaker`: the
  contents of a code are in one request's hands only, because the code is spent;
  with it, `CodeMintsOnce`.
- `OneBearer`, `GrantsKeepOrigin` and `RevokedStaysRevoked` are inductive together:
  each step takes a grant out of the store, puts the successor of the grant in hand
  back, signs in under a fresh session id, or leaves the bearers alone (`Taken`,
  `Given`, `CodeIssued`, `SignedIn`, `Quiet`). `BatonMoves` shows that these are all
  the cases, and `BatonStep` what each does to the bearers of a sign-in.
- `CacheExplained` and `CacheComplete`: a cache entry is the answer of the request
  that exchanged the code, and until a restart every such answer is cached or its
  window is over. The two give `ReplayIsFaithful` and `LateDuplicatesServed`.
- `EndpointImplementsFamily` is the refinement: `Init` maps to `Init`, and the same
  five cases map to the steps of `TokenFamily` or to stuttering.

`LoginFlowProofs` (`LFSpec`, invariant `LFInv`): `LoginTyping`, `SingleSignOnEarned`,
`SingleSignOnServed`, `LogoutReaches`.

- `CookiesEarned`: the session in a browser's cookie belongs to a login with the
  right password that was answered. Together with `StoredIsFresh`, which ties what
  `Get` accepts to the last use, it gives `SignOnsEarned`.
- `SessionsReachable` strengthens `LiveSessionsAreReachable` from live to stored
  sessions and keeps the cookie's age (`InCookie`): a browser drops a cookie only
  when it is older than the login's stamp plus `CookieAge`.

`ManagementApiProofs` (`MASpec`, invariant `MAInv`):

- `NoOrphansWithoutRaces`: `[]OnlyRacesLeaveOrphans`. Not inductive by itself:
  `DeleteUserRow` removes the user, and that nothing is linked to it must follow
  from the statements before. `DeletedSoFar` says so: at `delete_blocks` the user
  has no roles, at `delete_user` neither roles nor a block, or is in `stray`.
- `PermissionsExplained`: `[]PermissionsBacked`, from `PermissionsHeld`: a role with
  permissions exists or is in `unbacked`, and while a `DeleteRole` is past its first
  statement only the latter.

Steps that delete nothing and enter no deletion are handled by one lemma,
`QuietStep`; the rest is the statements of the two deletions, arrivals and the start.

`ManagementRowsProofs` (`MASpec`, invariant `MRInv`, which contains `MAInv`):

- `TablesStayTyped`: `[]MATypeOK`, the primary keys and UNIQUE columns. The seeds are
  a sequence of typed statements, each of which keeps the tables typed.
- `RolelessWereCut`: `[]RolelessOnlyIfCut`. During a start, a user without a role and
  not in `bare` is the user of the very next statement (`RolelessExplained`).
- `PatchesAreKept`: `[]PatchesStick`. A PATCH of a role about to write holds the row
  as it is, or the role is in `overlapped` (`RoleReadIsCurrent`), and a role about to
  be created is in nobody's hands (`NewRolesAreNew`).
- `PatchAnswersTruly`: `[]PatchAnswersItsWrite`. `PatchesStand`: between the update and
  the answer each column that was set stands in the table, unless another PATCH set
  it or the user was deleted.
- `SeedingConverges`: `MASpec => SeedConverges`, an action property. The invariant
  `SeedsSettle` says that while a start runs, the statements behind it are `Settled`
  (INSERT OR IGNORE of them would change nothing) and that the statements lead from
  the database, as it is, to `target`. A crash sends the start back to statement 1,
  where those it repeats change nothing, so the rest still leads to `target`.
  `InsertSettles` and `SettledStays` are the two facts about INSERT OR IGNORE: what was
  inserted or ignored once is ignored from then on, whatever is inserted after.

Looking for `PatchesStand` showed that an answer may also differ from the write
because the user was deleted and created anew under the same id, which takes three
requests and is out of reach of the run's two; the property names that case.

`TokenValidationProofs` (`TVSpec`, invariant `TVInv`, which contains `MRInv`):

- `ProfilesFollowPatches`: `[]ProfileFollowsPatch`. A probe remembers which PATCHes
  had been answered when it arrived; by `MRInv` their columns stand unless excused,
  also after crashes and starts, and the profile is read from the row.
- `ClaimsAreExplained`: `[]ClaimsFollowRules`, for rules of any length. `RunSteps` takes
  the recursive `Run` apart into one step per script; `RuleExplained` shows that a
  script keeps `Explained`: the claims held so far are those of the scripts that
  count so far, each with the value of the last of them (`ScriptCounts`); the fields
  are those that a script which handed a user back assigned last, or the row's
  (`ScriptAssigns`); and the map is shared with the script exactly when a user was
  handed back and not dropped since. That last part is what decides whether a script
  that throws leaves its claims behind. `RunExplained` is the induction.
  `ProfileExpected` shows that the claims `IssueIDToken` sets last are those the
  property expects, and `SignedFollows` puts the layers over each other: the
  issuer's first claims, the scripts', the environment's, the issuer's last.
- `TokensJudgedRight`: `[]AcceptedExactlyWhileGood`. `TokensInPlace` says that each life
  of the process has a key of its own and that issued tokens keep their claims;
  `StandardClaims` reads issuer, expiry and the absence of a start off `ClaimsFollow`,
  and `TokenJudged` compares them with what `Validate` and `PresentToken` look at.

Stating this for every `ExtraClaims` showed that the environment, too, may set `iss`,
`exp` and `nbf` of an access token, which the run's value does not; `Standard` names it.

The proofs use `TimeAssumption`, `NameAssumption`, `UserAssumption`,
`SessionAssumption`, `DeviceFlowAssumption`, `ShapeAssumption`, `RequestAssumption`,
`LoginAssumption`, `StoreAssumption`, `ManagementAssumption`, `RulesAssumption` and
`ValidationAssumption`:
constants are of their types, lifetimes are positive, placeholders (`NoUser`, `NoRequest` and the
like) are not values, and ids of different kinds are different. TLC evaluates them
in the runs.

**Induction over data.** The library's induction theorems take an operator as a
parameter and cannot be used with the provers at hand. `Induction` in
`ManagementRowsProofs` states it for a set instead: if 0 is in `S`, and i + 1 is in `S`
whenever i < n is, then `0..n` is contained in `S`. It follows from the pigeonhole
theorem, since otherwise i |-> i - 1 would map the numbers outside `S` one to one into
fewer. `SeedingExists` and `RunningExists` use it to show that the recursive functions
in `Started` and `Run` satisfy their equations; `RunExplained` and the lemmas behind
`SeedingConverges` use it to reason along them.

Model-checked only:

- liveness: `EveryLoginAnswered`, because the prover has no rules for fairness;
- the four expected violations.

## 5. Not modelled, and why

- GET /login, /login/callback, JWKS, discovery, health and the lists of the
  management API change no state and have no interleaving of their own.
- The router is a pure function on strings: a property of it would restate the
  switch.
- Audit lines and metrics are written and never read back. The `audit_logs` table
  and `UpdateAppMetadata` have no callers, connections are only seeded.
- No sign-in path consults the blocks, so `LoginFlow`, `TokenEndpoint` and `DeviceFlow`
  have none. These modules see the database as the set of existing users and
  delete a user in one step: only the last of `DeleteUser`'s three statements is
  visible to them, and their handlers look at the users table alone.
- Passwords, metadata and organisation columns are carried along unchanged.
- Failures of signing and of the random source. Failures of SQLite are modelled in
  `ManagementApi` and `TokenValidation`; in the sign-in modules a failed query has
  the outcome of a missing user, which is modelled.
- A rule that never ends (the runner has no time limit) is a request that is never
  answered; `EveryLoginAnswered` assumes rules that end.
- Liveness of the token endpoint, the device flow and the management API: no step of
  their requests waits for another request, so that nothing but fairness would be
  used. For the logins, where sessions expire and users vanish between the steps, it
  is checked.
- A rule that deletes claims, or puts another object in the place of the claims,
  and what rules read of their context. Custom claims for access and for ID tokens
  are treated alike.
- Of the claims: aud, azp, iat, nonce, amr, sid, picture and the hashes. A sign-in by
  refresh token for a user who is gone gives the tokens of a failed query.
- A denial that falls between a poll's check and `ConsumeDeviceCode` (grants/store.go:215)
  is modelled and overridden, as in the code; `DenialSticks` speaks of the denials
  that precede the poll's `Get`.
- Scopes are sets of words; the code looks for substrings. Redirect URIs are
  records of site, trailing slash and query, or members of `BadURIs`.
- The in-memory stores may be absent (`nil`) in the handlers; `main.go` always
  provides them.

## 6. What is left

Every safety and action property of the passing runs is a theorem. Worth adding,
in this order:

1. Action properties on top of the invariants: what a step of one request may never
   do to the grants, sessions and rows of another.
2. `LookupUser` of the sign-in modules on top of `UserStore`, so that a sign-in and the
   three statements of `DeleteUser` interleave in one model.
