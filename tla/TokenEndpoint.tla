--------------------------- MODULE TokenEndpoint ----------------------------
(***************************************************************************)
(* POST /oauth/token and POST /oauth/revoke of internal/handlers:          *)
(* concurrent requests against the grant store, the user database and the  *)
(* replay cache of authorization code responses.                           *)
(*                                                                         *)
(* A request is a goroutine.  Each of its steps is one access to shared    *)
(* state (a critical section, a database query, a reading of the clock)    *)
(* together with the local work after it; the steps of different requests  *)
(* interleave.  A server restart loses everything but the database.        *)
(*                                                                         *)
(* SessionID, the "sid_" uuid that a sign-in generates, is copied from the *)
(* code to every refresh token of that sign-in: it names a token family.   *)
(***************************************************************************)
EXTENDS GrantStore, ClientRegistry, Pkce

CONSTANTS
    Threads,        \* requests in the life of the model; each is sent once
    Requests,       \* what a request may ask for
    Sids,           \* SessionIDs (uuids)
    DefaultClient,  \* "e2e-test"
    ReplayTTL,      \* codeReplayTTL
    MaxRestarts,    \* bound on server restarts
    NoToken, NoGrant, NoRequest

ASSUME ShapeAssumption ==
    /\ AuthCodes \subseteq
         [user : Users, client : ClientIDs, uri : URIs,
          scope : SUBSET Scopes, challenge : Strings \cup {Empty},
          method : Methods, sid : Sids]
    /\ RefreshGrants =
         [user : Users, client : ClientIDs, scope : SUBSET Scopes, sid : Sids]
    /\ ReplayTTL \in Nat \ {0}
    /\ MaxRestarts \in Nat
    /\ DefaultClient \in Clients
    /\ NoGrant \notin RefreshGrants
    /\ NoToken \notin RefreshTokens

\* The form of a request; the goroutines have names of their own.
ASSUME RequestAssumption ==
    /\ NoRequest \notin Requests
    /\ \A r \in Requests :
         /\ r.client \in ClientIDs
         /\ r.kind = "authorization_code" => r.code \in Codes
         /\ r.kind = "refresh_token" => r.token \in RefreshTokens
         /\ r.kind = "password" => r.scope \subseteq Scopes
    /\ Threads \cap (Codes \cup RefreshTokens \cup {NoToken}) = {}

VARIABLES
    th,        \* the state of every request
    replay,    \* codeReplayCache: code -> [body, expires]
    users,     \* ids of the users in the database
    restarts,  \* number of restarts so far
    origin,    \* history: sid -> what the user signed in for
    killed     \* history: sids with a refresh token deleted by revocation

teVars == <<now, codes, refresh, dcs, devices, userCodes, used, spent,
            th, replay, users, restarts, origin, killed>>

-----------------------------------------------------------------------------
\* The JSON answer: the access token is named by the request that minted it.
Bodies == [access : Threads, openid : BOOLEAN,
           refresh : RefreshTokens \cup {NoToken}]
NoBody == [access |-> NoToken, openid |-> FALSE, refresh |-> NoToken]

PCs == {"idle", "replay", "lookup", "stamp", "save", "cache", "done"}
Statuses == {"none", "ok", "replayed", "invalid_grant", "server_error", "lost"}

Idle == [pc |-> "idle", req |-> NoRequest, grant |-> NoGrant, stamp |-> 0,
         body |-> NoBody, status |-> "none", at |-> 0, seen |-> "new"]

TEInit ==
    /\ GSInit
    /\ th = [t \in Threads |-> Idle]
    /\ replay = << >>
    /\ users = Users
    /\ restarts = 0
    /\ origin = << >>
    /\ killed = {}

\* sendJSON or w.Write: the request is answered, now, with this body.
Answered(s, status, body) ==
    [s EXCEPT !.pc = "done", !.status = status, !.body = body, !.at = now]

\* History: how far earlier exchanges of the code had come when this request
\* arrived.
Seen(code) ==
    CASE \E o \in Threads : /\ th[o].req # NoRequest
                            /\ th[o].req.kind = "authorization_code"
                            /\ th[o].req.code = code
                            /\ th[o].status = "ok" -> "answered"
      [] OTHER -> IF code \in spent THEN "spent" ELSE "new"

\* The request has been read and has run up to pc, with a grant in hand.
Started(r, pc, g) == [Idle EXCEPT !.pc = pc, !.req = r, !.grant = g]

\* The access token and, if asked for, the ID token are signed; a scope with
\* offline_access continues with a refresh token, another one with next.
Minted(s, t, next) ==
    LET body == [access |-> t, openid |-> "openid" \in s.grant.scope,
                 refresh |-> NoToken]
    IN  CASE "offline_access" \in s.grant.scope ->
                 [s EXCEPT !.pc = "stamp", !.body = body]
          [] "offline_access" \notin s.grant.scope /\ next = "done" ->
                 Answered(s, "ok", body)
          [] OTHER -> [s EXCEPT !.pc = next, !.body = body]

IsKind(t, kind) == th[t].req # NoRequest /\ th[t].req.kind = kind

-----------------------------------------------------------------------------
(* handleAuthorizationCode                                                 *)

\* Slip: the client is not compared.
ExchangeAllowedAnyClient(r, ac) ==
    /\ r.uri # Empty => normalizeURI(ac.uri) = normalizeURI(r.uri)
    /\ ac.challenge # Empty => Verify(r.verifier, ac.challenge, ac.method)
    /\ RequireSecretForCodes /\ IsConfidential(ac.client)
           => ValidateSecret(ac.client, r.secret)

\* The checks between ConsumeCode and the user lookup.
ExchangeAllowed(r, ac) ==
    /\ r.client # NoClient => ac.client = r.client
    /\ r.uri # Empty => normalizeURI(ac.uri) = normalizeURI(r.uri)
    /\ ac.challenge # Empty => Verify(r.verifier, ac.challenge, ac.method)
    /\ RequireSecretForCodes /\ IsConfidential(ac.client)
           => ValidateSecret(ac.client, r.secret)

\* The code is consumed before it is checked.
ExchangeCode(t, r) ==
    LET ac == codes[r.code].grant
        client == IF r.client # NoClient THEN r.client ELSE ac.client
        grant == [user |-> ac.user, client |-> client, scope |-> ac.scope,
                  sid |-> ac.sid]
        found == Redeemable(codes, r.code)
    IN  /\ th[t].pc = "idle"
        /\ r.kind = "authorization_code"
        /\ ConsumeCode(r.code)
        /\ \/ /\ ~found
              /\ th' = [th EXCEPT ![t] = [Started(r, "replay", NoGrant)
                                          EXCEPT !.seen = Seen(r.code)]]
           \/ /\ found /\ ~ExchangeAllowed(r, ac)
              /\ th' = [th EXCEPT ![t] =
                   Answered(Started(r, "done", NoGrant), "invalid_grant", NoBody)]
           \/ /\ found /\ ExchangeAllowed(r, ac)
              /\ th' = [th EXCEPT ![t] = Started(r, "lookup", grant)]
        /\ UNCHANGED <<replay, users, restarts, origin, killed>>

\* Slip: the deadline of the cache entry is not checked.
ReadReplayStale(t) ==
    LET code == th[t].req.code
    IN  /\ th[t].pc = "replay"
        /\ th' = [th EXCEPT ![t] =
                    IF code \in DOMAIN replay
                    THEN Answered(@, "replayed", replay[code].body)
                    ELSE Answered(@, "invalid_grant", NoBody)]
        /\ UNCHANGED <<gsVars, replay, users, restarts, origin, killed>>

\* A code that was not there: the response of an earlier exchange, if cached.
ReadReplay(t) ==
    LET code == th[t].req.code
        hit == code \in DOMAIN replay /\ now < replay[code].expires
    IN  /\ th[t].pc = "replay"
        /\ th' = [th EXCEPT ![t] =
                    IF hit THEN Answered(@, "replayed", replay[code].body)
                           ELSE Answered(@, "invalid_grant", NoBody)]
        /\ UNCHANGED <<gsVars, replay, users, restarts, origin, killed>>

\* Store.GetByID, the rules (which change only names and claims) and the
\* tokens.
LookupUser(t) ==
    /\ th[t].pc = "lookup"
    /\ th' = [th EXCEPT ![t] =
                IF th[t].grant.user \in users THEN Minted(@, t, "cache")
                ELSE Answered(@, "server_error", NoBody)]
    /\ UNCHANGED <<gsVars, replay, users, restarts, origin, killed>>

\* Slip: the clean-up keeps only the entry just made.
CacheResponseEvicts(t) ==
    LET code == th[t].req.code
        entry == [body |-> th[t].body, expires |-> now + ReplayTTL]
    IN  /\ th[t].pc = "cache"
        /\ replay' = Put(Restrict(replay, {}), code, entry)
        /\ th' = [th EXCEPT ![t] = Answered(@, "ok", th[t].body)]
        /\ UNCHANGED <<gsVars, users, restarts, origin, killed>>

\* Slip: the cache is filled before the response is built.
CacheResponseEmpty(t) ==
    LET code == th[t].req.code
        entry == [body |-> NoBody, expires |-> now + ReplayTTL]
    IN  /\ th[t].pc = "cache"
        /\ replay' = Put(replay, code, entry)
        /\ th' = [th EXCEPT ![t] = Answered(@, "ok", th[t].body)]
        /\ UNCHANGED <<gsVars, users, restarts, origin, killed>>

\* The response is cached, and the cache cleaned, just before it is sent.
CacheResponse(t) ==
    LET code == th[t].req.code
        filled == Put(replay, code, [body |-> th[t].body,
                                     expires |-> now + ReplayTTL])
    IN  /\ th[t].pc = "cache"
        /\ replay' = Without(filled, {c \in DOMAIN filled :
                                         Expired(filled[c].expires)})
        /\ th' = [th EXCEPT ![t] = Answered(@, "ok", th[t].body)]
        /\ UNCHANGED <<gsVars, users, restarts, origin, killed>>

-----------------------------------------------------------------------------
(* SaveRefreshToken as the three grants call it: the deadline is computed  *)
(* before the store's mutex is taken.                                      *)
ReadClock(t) ==
    /\ th[t].pc = "stamp"
    /\ th' = [th EXCEPT ![t].pc = "save", ![t].stamp = now]
    /\ UNCHANGED <<gsVars, replay, users, restarts, origin, killed>>

\* Slip: a refresh hands out a token string it has used before.
SaveRefreshReuses(t) ==
    /\ th[t].pc = "save"
    /\ \E tok \in RefreshTokens \ DOMAIN refresh :
         LET body == [th[t].body EXCEPT !.refresh = tok]
         IN  /\ SaveRefreshToken(tok, th[t].grant, th[t].stamp)
             /\ th' = [th EXCEPT ![t] =
                         IF IsKind(t, "authorization_code")
                         THEN [@ EXCEPT !.pc = "cache", !.body = body]
                         ELSE Answered(@, "ok", body)]
    /\ UNCHANGED <<replay, users, restarts, origin, killed>>

SaveRefresh(t) ==
    /\ th[t].pc = "save"
    /\ \E tok \in RefreshTokens \ used :
         LET body == [th[t].body EXCEPT !.refresh = tok]
         IN  /\ SaveRefreshToken(tok, th[t].grant, th[t].stamp)
             /\ th' = [th EXCEPT ![t] =
                         IF IsKind(t, "authorization_code")
                         THEN [@ EXCEPT !.pc = "cache", !.body = body]
                         ELSE Answered(@, "ok", body)]
    /\ UNCHANGED <<replay, users, restarts, origin, killed>>

-----------------------------------------------------------------------------
\* handleRefreshToken: the token is consumed before the client is checked,
\* and the user need not exist any more.
RefreshExchange(t, r) ==
    LET rg == refresh[r.token].grant
        found == Redeemable(refresh, r.token)
        allowed == r.client # NoClient => rg.client = r.client
    IN  /\ th[t].pc = "idle"
        /\ r.kind = "refresh_token"
        /\ ConsumeRefreshToken(r.token)
        /\ th' = [th EXCEPT ![t] =
                    IF found /\ allowed
                    THEN Minted(Started(r, "stamp", rg), t, "done")
                    ELSE Answered(Started(r, "done", NoGrant),
                                  "invalid_grant", NoBody)]
        /\ UNCHANGED <<replay, users, restarts, origin, killed>>

\* handleToken's default, for every grant type but the two above.
Effective(client) == IF client = NoClient THEN DefaultClient ELSE client

\* handlePasswordGrant: a sign-in of its own, with a new session id.
PasswordGrant(t, r) ==
    /\ th[t].pc = "idle"
    /\ r.kind = "password"
    /\ IF r.user \in users /\ r.correct
       THEN \E sid \in Sids \ DOMAIN origin :
              LET rg == [user |-> r.user, client |-> Effective(r.client),
                         scope |-> r.scope, sid |-> sid]
              IN  /\ th' = [th EXCEPT ![t] =
                              Minted(Started(r, "stamp", rg), t, "done")]
                  /\ origin' = Put(origin, sid, rg)
       ELSE /\ th' = [th EXCEPT ![t] =
                        Answered(Started(r, "done", NoGrant),
                                 "invalid_grant", NoBody)]
            /\ UNCHANGED origin
    /\ UNCHANGED <<gsVars, replay, users, restarts, killed>>

\* handleRevoke of a refresh token ("rt_" prefix); always answered 200.
Revoke(tok) ==
    /\ RevokeRefreshToken(tok)
    /\ killed' = killed \cup {refresh[k].grant.sid : k \in {tok} \cap DOMAIN refresh}
    /\ UNCHANGED <<th, replay, users, restarts, origin>>

-----------------------------------------------------------------------------
(* The rest of the system, as the token endpoint sees it.                  *)

\* /authorize and /login save codes, each for a sign-in with a new sid.
IssueCode(c, ac, stamp) ==
    /\ c \notin used
    /\ ac.sid \notin DOMAIN origin
    /\ ac.user \in users
    /\ SaveCode(c, ac, stamp)
    /\ origin' = Put(origin, ac.sid, [user |-> ac.user, client |-> ac.client,
                                      scope |-> ac.scope, sid |-> ac.sid])
    /\ UNCHANGED <<th, replay, users, restarts, killed>>

\* DELETE /api/v2/users/{id}
DeleteUser(u) ==
    /\ users' = users \ {u}
    /\ UNCHANGED <<gsVars, th, replay, restarts, origin, killed>>

\* The process ends and a new one starts: requests under way get no answer.
Restart ==
    /\ restarts < MaxRestarts
    /\ restarts' = restarts + 1
    /\ StoreRestart
    /\ replay' = << >>
    /\ th' = [t \in Threads |->
                IF th[t].pc \in {"idle", "done"} THEN th[t]
                ELSE Answered(th[t], "lost", th[t].body)]
    /\ UNCHANGED <<users, origin, killed>>

ClockTick ==
    /\ GSTick
    /\ UNCHANGED <<th, replay, users, restarts, origin, killed>>

Begin(t) ==
    \E r \in Requests :
        ExchangeCode(t, r) \/ RefreshExchange(t, r) \/ PasswordGrant(t, r)

Step(t) ==
    \/ ReadReplay(t)
    \/ LookupUser(t)
    \/ ReadClock(t)
    \/ SaveRefresh(t)
    \/ CacheResponse(t)

TENext ==
    \/ \E t \in Threads : Begin(t)
    \/ \E t \in Threads : Step(t)
    \/ \E tok \in RefreshTokens : Revoke(tok)
    \/ \E c \in Codes, ac \in AuthCodes, stamp \in 0..now :
           IssueCode(c, ac, stamp)
    \/ \E u \in users : DeleteUser(u)
    \/ Restart
    \/ ClockTick

TESpec == TEInit /\ [][TENext]_teVars

-----------------------------------------------------------------------------
ThreadStates ==
    [pc : PCs, req : Requests \cup {NoRequest},
     grant : RefreshGrants \cup {NoGrant}, stamp : Nat,
     body : Bodies \cup {NoBody}, status : Statuses, at : Nat,
     seen : {"new", "spent", "answered"}]

(* The type invariant of the requests, the cache and the histories.        *)
TETypeOK ==
    /\ GSTypeOK
    /\ th \in [Threads -> ThreadStates]
    /\ DOMAIN replay \subseteq Codes
    /\ \A c \in DOMAIN replay : replay[c] \in [body : Bodies, expires : Nat]
    /\ users \subseteq Users
    /\ restarts \in 0..MaxRestarts
    /\ DOMAIN origin \subseteq Sids
    /\ \A s \in DOMAIN origin : origin[s] \in RefreshGrants
    /\ killed \subseteq DOMAIN origin

Exchanging(t, code) == IsKind(t, "authorization_code") /\ th[t].req.code = code
MintedBy(t) == th[t].body.access = t

(* An authorization code yields one set of tokens: of all the requests that*)
(* present it, concurrently or after a lost answer, at most one is issued  *)
(* an access token of its own by handleAuthorizationCode.                  *)
OneMintPerCode ==
    \A c \in Codes : \A t, o \in Threads :
        /\ Exchanging(t, c) /\ MintedBy(t)
        /\ Exchanging(o, c) /\ MintedBy(o)
        => t = o

\* A request that has taken a grant out of the store and may still put its
\* successor back.
InHand(t) == th[t].pc \in {"lookup", "stamp", "save"}

\* Everything that can still continue the sign-in named sid.
Bearers(sid) ==
    {c \in DOMAIN codes : codes[c].grant.sid = sid}
      \cup {k \in DOMAIN refresh : refresh[k].grant.sid = sid}
      \cup {t \in Threads : InHand(t) /\ th[t].grant.sid = sid}

(* Rotation never forks a sign-in: its code, its refresh token or a request*)
(* between consuming the one and saving the next is the only bearer, so two*)
(* refresh tokens of one session are never good at the same time.          *)
OneBearer == \A sid \in Sids : \A x, y \in Bearers(sid) : x = y

Family == INSTANCE TokenFamily
            WITH begun <- DOMAIN origin,
                 bearers <- [sid \in Sids |-> Bearers(sid)],
                 seen <- used

(* The token endpoint implements TokenFamily: the grants of a sign-in are  *)
(* handed from code to request to refresh token, one at a time, each new   *)
(* one under a fresh uuid, and never come back once lost.                  *)
ImplementsTokenFamily == Family!Spec

(* handleRevoke ends the session of a stored refresh token for good: no    *)
(* request that was under way brings back a refresh token of that session. *)
RevokedStaysRevoked == \A sid \in killed : Bearers(sid) = {}

(* Whatever chain of exchanges and rotations a grant has gone through, it  *)
(* is for the user, client and scope of the sign-in it stems from; and     *)
(* only a sign-in with offline_access has refresh tokens.                  *)
GrantsKeepOrigin ==
    /\ \A c \in DOMAIN codes :
         LET ac == codes[c].grant
         IN  /\ ac.sid \in DOMAIN origin
             /\ origin[ac.sid] = [user |-> ac.user, client |-> ac.client,
                                  scope |-> ac.scope, sid |-> ac.sid]
    /\ \A k \in DOMAIN refresh :
         LET rg == refresh[k].grant
         IN  /\ rg.sid \in DOMAIN origin
             /\ rg = origin[rg.sid]
             /\ "offline_access" \in rg.scope
    /\ \A t \in Threads :
         LET g == th[t].grant
         IN  g # NoGrant => g.sid \in DOMAIN origin /\ g = origin[g.sid]

(* A replayed answer is byte for byte the answer of the request that       *)
(* exchanged the code, and is given less than codeReplayTTL after it.      *)
ReplayFaithful ==
    \A t \in Threads : th[t].status = "replayed" =>
        \E o \in Threads \ {t} :
            /\ Exchanging(o, th[t].req.code)
            /\ MintedBy(o)
            /\ th[o].body = th[t].body
            /\ th[t].at < th[o].at + ReplayTTL

\* t repeated the exchange o made, and was refused within the replay window.
RefusedDuplicate(t, o) ==
    /\ Exchanging(o, th[t].req.code)
    /\ th[o].status = "ok"
    /\ th[t].status = "invalid_grant"
    /\ th[t].at < th[o].at + ReplayTTL

(* A duplicate exchange sent after the first one was answered gets the     *)
(* cached answer, for codeReplayTTL and as long as the server is not       *)
(* restarted, whatever other exchanges fill and clean the cache.           *)
LateDuplicateServed ==
    restarts = 0 =>
        \A t, o \in Threads :
            IsKind(t, "authorization_code") /\ th[t].seen = "answered"
                => ~RefusedDuplicate(t, o)

(* The comments on codeReplayTTL and on the cache promise this for every   *)
(* duplicate (React Strict Mode sends both requests at once).              *)
DuplicateExchangeServed ==
    \A t, o \in Threads :
        IsKind(t, "authorization_code") /\ th[t].seen # "new"
            => ~RefusedDuplicate(t, o)
=============================================================================
