----------------------------- MODULE LoginFlow ------------------------------
(***************************************************************************)
(* Signing in: GET /authorize, POST /login and GET /v2/logout of           *)
(* internal/handlers, over the session store, the grant store and the user *)
(* database, for browsers that keep the fake_auth_session cookie.          *)
(*                                                                         *)
(* A request is a goroutine; each of its steps is one access to shared     *)
(* state with the local work after it.  Nonce, state, audience and the     *)
(* PKCE parameters are copied into the code unchanged and left out; the    *)
(* "sid_" uuid of a code is TokenEndpoint's subject.                       *)
(***************************************************************************)
EXTENDS GrantStore, SessionStore, ClientRegistry

CONSTANTS
    Threads,        \* requests in the life of the model; each is sent once
    Requests,       \* what a request may ask for
    Browsers,
    DefaultClient,  \* "e2e-test"
    CookieAge,      \* sessionCookieMaxAge
    MaxRestarts,    \* bound on server restarts
    NoURI,          \* no redirect_uri
    BadURIs,        \* redirect URIs that url.Parse rejects
    NoCookie, NoSession, NoRequest

ASSUME LoginAssumption ==
    /\ AuthCodes = [user : Users, client : ClientIDs, uri : URIs,
                    scope : SUBSET Scopes]
    /\ Requests \subseteq
         [path : {"authorize", "login"}, browser : Browsers,
          given : {"both", "one", "none"}, \* of username and password
          user : Users \cup {NoUser}, correct : BOOLEAN, client : ClientIDs,
          uri : URIs \cup {NoURI}, scope : SUBSET Scopes,
          response : {"code", "token", "other"}, promptNone : BOOLEAN]
    /\ NoURI \notin URIs
    /\ BadURIs \subseteq URIs
    /\ DefaultClient \in Clients
    /\ CookieAge \in Nat \ {0}
    /\ MaxRestarts \in Nat
    /\ NoRequest \notin Requests
    /\ NoSession \notin SessionIDs
    /\ NoCookie \notin [sid : SessionIDs, until : Nat]

VARIABLES
    lt,        \* the state of every request
    cookie,    \* browser -> [sid, until], the cookie it keeps
    users,     \* ids of the users in the database
    restarts

lfVars == <<now, codes, refresh, dcs, devices, userCodes, used, spent,
            sessions, opened, lastUse, ended, lt, cookie, users, restarts>>
sessionData == <<sessions, opened, lastUse, ended>>
grantData == <<codes, refresh, dcs, devices, userCodes, used, spent>>

NewThread == [pc |-> "idle", req |-> NoRequest, user |-> NoUser,
              sid |-> NoSession, stamp |-> 0, answer |-> "none",
              idle |-> 0, loggedOut |-> FALSE, ssoUser |-> NoUser]

LFInit ==
    /\ GSInit
    /\ SSInit
    /\ lt = [t \in Threads |-> NewThread]
    /\ cookie = [b \in Browsers |-> NoCookie]
    /\ users = Users
    /\ restarts = 0

-----------------------------------------------------------------------------
Answer(s, answer) == [s EXCEPT !.pc = "done", !.answer = answer]

\* The browser sends its cookie until the cookie's own age is over.
CookieSent(b) ==
    IF cookie[b] # NoCookie /\ now <= cookie[b].until
    THEN cookie[b].sid ELSE NoSession

\* History: the user whose live session the request's cookie names.
SsoUser(r) ==
    LET sid == CookieSent(r.browser)
    IN  IF sid # NoSession /\ SessionLive(sid) /\ sessions[sid].user \in users
        THEN sessions[sid].user ELSE NoUser

Arrived(r) == [NewThread EXCEPT !.req = r, !.ssoUser = SsoUser(r)]

Respond(t, r, answer) == lt' = [lt EXCEPT ![t] = Answer(Arrived(r), answer)]

HasCredentials(r) == r.given = "both"

GoodCredentials(r) == r.user \in users /\ r.correct

Effective(client) == IF client = NoClient THEN DefaultClient ELSE client

\* The redirect URI is checked for the client_id as sent, the scope for the
\* client after the default.
AuthorizeAllowed(r) ==
    /\ r.uri # NoURI
    /\ ValidateRedirectURI(r.client, r.uri)
    /\ ValidateScope(Effective(r.client), r.scope)
    /\ r.uri \notin BadURIs

Arrives(t, r, path) == lt[t].pc = "idle" /\ r.path = path

AuthorizeRefused(t, r) ==
    /\ Arrives(t, r, "authorize")
    /\ \/ ~AuthorizeAllowed(r) /\ Respond(t, r, "invalid_request")
       \/ /\ AuthorizeAllowed(r)
          /\ r.response = "other"
          /\ Respond(t, r, "unsupported_response_type")
    /\ UNCHANGED <<now, grantData, sessionData, cookie, users, restarts>>

\* handleImplicitAuthorize: no session is looked up and none is created.
AuthorizeImplicit(t, r) ==
    /\ Arrives(t, r, "authorize")
    /\ AuthorizeAllowed(r)
    /\ r.response = "token"
    /\ \/ ~HasCredentials(r) /\ Respond(t, r, "login_page")
       \/ HasCredentials(r) /\ GoodCredentials(r) /\ Respond(t, r, "tokens")
       \/ HasCredentials(r) /\ ~GoodCredentials(r) /\ Respond(t, r, "access_denied")
    /\ UNCHANGED <<now, grantData, sessionData, cookie, users, restarts>>

AuthorizeCredentials(t, r) ==
    /\ Arrives(t, r, "authorize")
    /\ AuthorizeAllowed(r)
    /\ r.response = "code"
    /\ HasCredentials(r)
    /\ \/ ~GoodCredentials(r) /\ Respond(t, r, "access_denied")
       \/ /\ GoodCredentials(r)
          /\ lt' = [lt EXCEPT ![t] = [Arrived(r) EXCEPT !.pc = "login",
                                                        !.user = r.user]]
    /\ UNCHANGED <<now, grantData, sessionData, cookie, users, restarts>>

\* prompt=none is answered before the session is looked at.
AuthorizePromptNone(t, r) ==
    /\ Arrives(t, r, "authorize")
    /\ AuthorizeAllowed(r)
    /\ r.response = "code"
    /\ r.given = "none"
    /\ r.promptNone
    /\ Respond(t, r, "login_required")
    /\ UNCHANGED <<now, grantData, sessionData, cookie, users, restarts>>

\* Single sign-on: SessionStore.Get with the request's cookie, unless half
\* of the credentials came along (then prompt=none counts for nothing, too).
AuthorizeCookie(t, r) ==
    LET sid == CookieSent(r.browser)
    IN  /\ Arrives(t, r, "authorize")
        /\ AuthorizeAllowed(r)
        /\ r.response = "code"
        /\ ~HasCredentials(r)
        /\ r.given = "none" => ~r.promptNone
        /\ \/ /\ r.given = "one" \/ sid = NoSession
              /\ Respond(t, r, "login_page")
              /\ UNCHANGED sessionData
           \/ /\ r.given = "none" /\ sid # NoSession
              /\ Get(sid)
              /\ lt' = [lt EXCEPT ![t] =
                   IF SessionLive(sid)
                   THEN [Arrived(r) EXCEPT !.pc = "lookup", !.sid = sid,
                                           !.user = sessions[sid].user,
                                           !.idle = now - lastUse[sid],
                                           !.loggedOut = sid \in ended]
                   ELSE Answer(Arrived(r), "login_page")]
        /\ UNCHANGED <<now, grantData, cookie, users, restarts>>

\* Slip: the handler retries until the user is there.
LookupSessionUserRetries(t) ==
    /\ lt[t].pc = "lookup"
    /\ lt[t].user \in users
    /\ lt' = [lt EXCEPT ![t].pc = "stamp"]
    /\ UNCHANGED <<now, grantData, sessionData, cookie, users, restarts>>

\* Slip: the session is looked up a second time.
LookupSessionUserRechecks(t) ==
    /\ lt[t].pc = "lookup"
    /\ lt' = [lt EXCEPT ![t] = IF lt[t].user \in users /\ SessionLive(lt[t].sid)
                               THEN [@ EXCEPT !.pc = "stamp"]
                               ELSE Answer(@, "login_page")]
    /\ UNCHANGED <<now, grantData, sessionData, cookie, users, restarts>>

\* Store.GetByID for the session's user.
LookupSessionUser(t) ==
    /\ lt[t].pc = "lookup"
    /\ lt' = [lt EXCEPT ![t] = IF lt[t].user \in users
                               THEN [@ EXCEPT !.pc = "stamp"]
                               ELSE Answer(@, "login_page")]
    /\ UNCHANGED <<now, grantData, sessionData, cookie, users, restarts>>

\* handleLogin, POST: no registry checks, no default client, and the error
\* of url.Parse is dropped.
LoginPost(t, r) ==
    /\ Arrives(t, r, "login")
    /\ \/ /\ r.uri = NoURI \/ ~HasCredentials(r)
          /\ Respond(t, r, "invalid_request")
       \/ /\ r.uri # NoURI /\ HasCredentials(r) /\ ~GoodCredentials(r)
          /\ Respond(t, r, "access_denied")
       \/ /\ r.uri # NoURI /\ HasCredentials(r) /\ GoodCredentials(r)
          /\ lt' = [lt EXCEPT ![t] = [Arrived(r) EXCEPT !.pc = "login",
                                                        !.user = r.user]]
    /\ UNCHANGED <<now, grantData, sessionData, cookie, users, restarts>>

-----------------------------------------------------------------------------
(* SessionStore.Create: the deadline, then the critical section.           *)
SessionStamp(t) ==
    /\ lt[t].pc = "login"
    /\ lt' = [lt EXCEPT ![t].pc = "create", ![t].stamp = now]
    /\ UNCHANGED <<now, grantData, sessionData, cookie, users, restarts>>

\* A login sets the cookie with its response.
SetCookie(t, sid) ==
    cookie' = [cookie EXCEPT ![lt[t].req.browser] =
                 [sid |-> sid, until |-> now + CookieAge]]

\* Slip: the response is flushed before the redirect is built.
RedirectFlushed(t, s, answer) ==
    /\ lt' = [lt EXCEPT ![t] =
                 Answer(s, IF s.req.uri \in BadURIs THEN "panic" ELSE answer)]
    /\ IF HasCredentials(s.req) THEN SetCookie(t, s.sid) ELSE UNCHANGED cookie

\* Where the redirect is built: the nil URL of an unparsable redirect_uri
\* panics, and the response, with the cookie set in it, is never written.
Redirect(t, s, answer) ==
    IF s.req.uri \in BadURIs
    THEN lt' = [lt EXCEPT ![t] = Answer(s, "panic")] /\ UNCHANGED cookie
    ELSE /\ lt' = [lt EXCEPT ![t] = Answer(s, answer)]
         /\ IF HasCredentials(s.req) THEN SetCookie(t, s.sid) ELSE UNCHANGED cookie

CreateSession(t) ==
    /\ lt[t].pc = "create"
    /\ \E sid \in SessionIDs \ DOMAIN opened :
         /\ Create(sid, lt[t].user, lt[t].stamp)
         /\ IF lt[t].req.response = "token"
            THEN Redirect(t, [lt[t] EXCEPT !.sid = sid], "tokens")
            ELSE /\ lt' = [lt EXCEPT ![t].pc = "stamp", ![t].sid = sid]
                 /\ UNCHANGED cookie
    /\ UNCHANGED <<now, grantData, users, restarts>>

(* GrantStore.SaveCode: the deadline, then the critical section.           *)
CodeStamp(t) ==
    /\ lt[t].pc = "stamp"
    /\ lt' = [lt EXCEPT ![t].pc = "save", ![t].stamp = now]
    /\ UNCHANGED <<now, grantData, sessionData, cookie, users, restarts>>

IssueCode(t) ==
    LET r == lt[t].req
        ac == [user |-> lt[t].user, uri |-> r.uri, scope |-> r.scope,
               client |-> IF r.path = "authorize" THEN Effective(r.client)
                          ELSE r.client]
    IN  /\ lt[t].pc = "save"
        /\ \E c \in Codes \ used : SaveCode(c, ac, lt[t].stamp)
        /\ Redirect(t, lt[t], "code")
        /\ UNCHANGED <<sessionData, users, restarts>>

-----------------------------------------------------------------------------
\* Slip: only the cookie is removed.
LogoutCookieOnly(b) ==
    /\ cookie' = [cookie EXCEPT ![b] = NoCookie]
    /\ UNCHANGED <<now, grantData, sessionData, lt, users, restarts>>

\* handleLogout: the session is revoked and the cookie removed.
Logout(b) ==
    /\ IF CookieSent(b) # NoSession THEN Revoke(CookieSent(b))
       ELSE UNCHANGED <<now, sessionData>>
    /\ cookie' = [cookie EXCEPT ![b] = NoCookie]
    /\ UNCHANGED <<grantData, lt, users, restarts>>

DeleteUser(u) ==
    /\ users' = users \ {u}
    /\ UNCHANGED <<now, grantData, sessionData, lt, cookie, restarts>>

\* A new process: empty stores, no answer to requests under way; the
\* browsers keep their cookies.
Restart ==
    /\ restarts < MaxRestarts
    /\ restarts' = restarts + 1
    /\ StoreRestart
    /\ sessions' = << >>
    /\ lt' = [t \in Threads |-> IF lt[t].pc \in {"idle", "done"} THEN lt[t]
                                ELSE Answer(lt[t], "lost")]
    /\ UNCHANGED <<opened, lastUse, ended, cookie, users>>

ClockTick == Tick /\ UNCHANGED <<grantData, sessionData, lt, cookie, users, restarts>>

Begin(t) ==
    \E r \in Requests :
        \/ AuthorizeRefused(t, r)
        \/ AuthorizeImplicit(t, r)
        \/ AuthorizeCredentials(t, r)
        \/ AuthorizePromptNone(t, r)
        \/ AuthorizeCookie(t, r)
        \/ LoginPost(t, r)

Step(t) ==
    \/ LookupSessionUser(t)
    \/ SessionStamp(t)
    \/ CreateSession(t)
    \/ CodeStamp(t)
    \/ IssueCode(t)

LFNext ==
    \/ \E t \in Threads : Begin(t)
    \/ \E t \in Threads : Step(t)
    \/ \E b \in Browsers : Logout(b)
    \/ \E u \in users : DeleteUser(u)
    \/ Restart
    \/ ClockTick

LFSpec == LFInit /\ [][LFNext]_lfVars

\* The Go scheduler runs every runnable goroutine.
LFFairSpec == LFSpec /\ \A t \in Threads : WF_lfVars(Step(t))

-----------------------------------------------------------------------------
LoginStates ==
    [pc : {"idle", "lookup", "login", "create", "stamp", "save", "done"},
     req : Requests \cup {NoRequest}, user : Users \cup {NoUser},
     sid : SessionIDs \cup {NoSession}, stamp : Nat,
     answer : {"none", "code", "tokens", "login_page", "login_required",
               "access_denied", "invalid_request",
               "unsupported_response_type", "panic", "lost"},
     idle : Nat, loggedOut : BOOLEAN, ssoUser : Users \cup {NoUser}]

(* The type invariant of the requests, the cookies and the sessions.       *)
LFTypeOK ==
    /\ GSTypeOK
    /\ SSTypeOK
    /\ lt \in [Threads -> LoginStates]
    /\ cookie \in [Browsers -> {NoCookie} \cup [sid : SessionIDs, until : Nat]]
    /\ users \subseteq Users
    /\ restarts \in 0..MaxRestarts

SignedOnByCookie(t) == lt[t].sid # NoSession /\ ~HasCredentials(lt[t].req)

(* Single sign-on is earned: a request that /authorize signs on by its     *)
(* cookie is signed on as the user who gave a password when that session   *)
(* was created, the session had not been logged out, and it had been used  *)
(* within the session lifetime, across any restarts and concurrent logins; *)
(* the session of a login whose response was never sent signs nobody on.   *)
SignOnEarned ==
    \A t \in Threads : SignedOnByCookie(t) =>
        /\ \E o \in Threads : /\ lt[o].sid = lt[t].sid
                              /\ HasCredentials(lt[o].req)
                              /\ lt[o].req.user = lt[t].user
                              /\ lt[o].req.correct
                              /\ lt[o].answer \in {"code", "tokens"}
        /\ ~lt[t].loggedOut
        /\ lt[t].idle <= SessionTTL

(* A person with a live session is asked to log in again by the code flow  *)
(* only if the account was deleted before GetByID: no logout, clean-up or  *)
(* login of somebody else comes between Get and the code.                  *)
SsoServed ==
    \A t \in Threads :
        /\ lt[t].ssoUser # NoUser
        /\ lt[t].req.path = "authorize"
        /\ lt[t].req.response = "code"
        /\ lt[t].req.given = "none"
        /\ lt[t].answer = "login_page"
        => lt[t].ssoUser \notin users

(* Logging out reaches the session: a live session is still on its way to  *)
(* its browser, or named by the browser's cookie, unless the browser has   *)
(* logged in again since, kept the cookie beyond its age, or was never sent*)
(* the cookie because the redirect_uri did not parse.                      *)
LiveSessionsAreReachable ==
    \A sid \in {s \in DOMAIN sessions : SessionLive(s)} :
        \/ \E b \in Browsers : cookie[b] # NoCookie /\ cookie[b].sid = sid
        \/ \E t \in Threads :
             /\ lt[t].sid = sid
             /\ HasCredentials(lt[t].req)
             /\ \/ lt[t].pc # "done"
                \/ lt[t].answer = "panic"
                \/ now > lt[t].stamp + CookieAge
                \/ \E o \in Threads \ {t} :
                     /\ lt[o].req # NoRequest
                     /\ lt[o].req.browser = lt[t].req.browser
                     /\ HasCredentials(lt[o].req)
                     /\ lt[o].sid # NoSession
                     /\ lt[o].answer \in {"code", "tokens"}

(* README, Server-side sessions: "/authorize skips the login page when the *)
(* user is already authenticated": a request with the cookie of a live     *)
(* session of an existing user is not sent to the login page.              *)
AuthorizeSkipsLoginPage ==
    \A t \in Threads :
        lt[t].ssoUser \in users => lt[t].answer # "login_page"

(* Every /authorize and /login request is answered.                        *)
EveryLoginAnswered ==
    \A t \in Threads : lt[t].pc # "idle" ~> lt[t].pc = "done"
=============================================================================
