-------------------------- MODULE TokenValidation ---------------------------
(***************************************************************************)
(* The signed tokens of internal/token/jwt.go and the requests that accept *)
(* them: /oauth/introspect, /userinfo and /tokeninfo, over the user        *)
(* database that the management API changes meanwhile.                     *)
(*                                                                         *)
(* A signature is the key it was made with.  Time passes in seconds, like  *)
(* the claims.  /userinfo and /tokeninfo validate the token, then read the *)
(* user's row; they differ in the claims they copy, not in the ones here.  *)
(* Of a token's claims those are kept that are validated, that describe    *)
(* the person, or that a rule or the environment sets; of a scope, whether *)
(* it holds "email", and whether it holds "profile" or "openid".           *)
(***************************************************************************)
EXTENDS ManagementApi, Rules, FiniteSets

CONSTANTS
    Probes,        \* requests that present a token; each is sent once
    Lifetime,      \* accessTokenLifetime, idTokenLifetime
    MaxTime,       \* bound on the clock
    MaxTokens,     \* bound on the tokens issued
    ClientSubject, \* "client|" and a client id
    Words(_),      \* strings.SplitN(name, " ", 2)
    NoToken

ASSUME ValidationAssumption ==
    /\ Lifetime \in Nat \ {0}
    /\ MaxTime \in Nat
    /\ MaxTokens \in Nat
    /\ ClientSubject \notin UserIDs

VARIABLES
    now,
    key,      \* Issuer.key
    issued,   \* the tokens that clients hold
    probe,    \* the state of every request that presents a token
    revoked   \* history: the tokens sent to /oauth/revoke

tvVars == <<now, key, issued, probe, revoked>>

NewProbe == [pc |-> "idle", token |-> NoToken, answer |-> "none",
             email |-> Blank, failed |-> FALSE, own |-> FALSE, young |-> FALSE,
             revoked |-> FALSE, after |-> {}]

TVInit ==
    /\ MAInit
    /\ now = 0
    /\ key = 1
    /\ issued = {}
    /\ probe = [v \in Probes |-> NewProbe]
    /\ revoked = {}

-----------------------------------------------------------------------------
\* Issue: the custom claims win.
Issue(sub, custom) ==
    mergeClaims([sub |-> sub, iss |-> "url/", exp |-> now + Lifetime], custom)

\* What IssueIDToken says of the person, as far as the scope and the user go.
ProfileClaims(scope, email, name) ==
    [c \in {c \in {"email", "email_verified"} : "email" \in scope /\ email # Blank} \cup
           {c \in {"name", "nickname", "given_name", "family_name"} :
              /\ "profile" \in scope /\ name # Blank
              /\ c = "family_name" => Len(Words(name)) > 1} |->
       CASE c = "email" -> email
         [] c = "email_verified" -> TRUE
         [] c \in {"name", "nickname"} -> name
         [] c = "given_name" -> Words(name)[1]
         [] c = "family_name" -> Words(name)[2]]

\* Slip: the custom claims win.
IssueIDTokenCustom(sub, scope, email, name, custom) ==
    mergeClaims(Issue(sub, ProfileClaims(scope, email, name)), custom)

\* IssueIDToken: the custom claims win, but not over those.
IssueIDToken(sub, scope, email, name, custom) ==
    mergeClaims(Issue(sub, custom), ProfileClaims(scope, email, name))

\* History: the scope, the user's fields and the rules, the time and the run.
Token(kind, claims, scope, row, rules) ==
    [claims |-> claims, key |-> key, kind |-> kind, scope |-> scope, row |-> row,
     rules |-> rules, at |-> now, run |-> crashes]

\* An empty scope stands for all.
Scopes == SUBSET {"email", "profile"}

UserFields(u) == [email |-> db.users[u].email, name |-> db.users[u].name,
                 nickname |-> db.users[u].name]

ShownName(user) ==
    IF user.name # Blank THEN user.name
    ELSE IF user.nickname # Blank THEN user.nickname ELSE user.email

\* What a sign-in answers for a user whose row was read.
UserTokens(u) ==
    LET row == UserFields(u)
    IN  UNION {LET user == Run(NewUser(row), rules)
               IN  {Token("access", Issue(u, mergeClaims(user.claims, ExtraClaims)),
                          {}, row, rules)} \cup
                   {Token("id", IssueIDToken(u, scope, user.fields.email,
                                             ShownName(user.fields), user.claims),
                          scope, row, rules) : scope \in Scopes} :
               rules \in RuleFiles}

\* handleRefreshToken: no rules, and no fields if the query fails.
RenewedTokens(u) ==
    {Token("access", Issue(u, mergeClaims(<< >>, ExtraClaims)), {}, UserFields(u),
           << >>)} \cup
    {Token("renewed", IssueIDToken(u, scope, row.email, row.name, << >>),
           scope, row, << >>) :
       scope \in {s \in Scopes : "profile" \in s}, row \in {UserFields(u), NoFields}}

\* handleClientCredentials
ClientToken == Token("client", Issue(ClientSubject, << >>), {}, NoFields, << >>)

IssueToken ==
    /\ phase = Serving
    /\ Cardinality(issued) < MaxTokens
    /\ \E tok \in (UNION {UserTokens(u) \cup RenewedTokens(u) : u \in DOMAIN db.users})
                   \cup {ClientToken} :
         issued' = issued \cup {tok}
    /\ UNCHANGED <<maVars, now, key, probe, revoked>>

\* handleRevoke with a signed token: only refresh tokens are looked for.
RevokeSigned(tok) ==
    /\ phase = Serving
    /\ revoked' = revoked \cup {tok}
    /\ UNCHANGED <<maVars, now, key, issued, probe>>

\* exp and nbf, at time t, as jwt.Parse checks them when they are there: each
\* must be a number, and an exp of 0 is none.
InForce(claims, t) ==
    /\ claims.exp \in Int
    /\ claims.exp = 0 \/ t < claims.exp
    /\ "nbf" \in DOMAIN claims => claims.nbf \in Int /\ claims.nbf <= t

\* Slip: the clock is a second late.
ValidateLate(tok) ==
    /\ tok.key = key
    /\ InForce(tok.claims, now - 1)
    /\ tok.claims.iss \in {"url", "url/"}

\* Issuer.Validate: the signature, the claims of jwt.Parse and the issuer.
Validate(tok) ==
    /\ tok.key = key
    /\ InForce(tok.claims, now)
    /\ tok.claims.iss \in {"url", "url/"}

\* History: PATCHes of the user's email answered when the request arrives.
AnsweredPatches(u) ==
    {t \in Threads : /\ th[t].answer = "ok"
                     /\ th[t].req.table = "users" /\ th[t].req.id = u
                     /\ "email" \in DOMAIN th[t].req.set}

Presented(tok) ==
    [NewProbe EXCEPT !.token = tok, !.after = AnsweredPatches(tok.claims.sub),
                     !.own = tok.run = crashes, !.young = now < tok.at + Lifetime,
                     !.revoked = tok \in revoked]

Introspect(v, tok) ==
    /\ phase = Serving /\ probe[v].pc = "idle"
    /\ probe' = [probe EXCEPT ![v] =
         [Presented(tok) EXCEPT !.pc = "done",
            !.answer = IF Validate(tok) THEN "active" ELSE "inactive"]]
    /\ UNCHANGED <<maVars, now, key, issued, revoked>>

\* handleUserinfo and handleTokeninfo, the token.
PresentToken(v, tok) ==
    /\ phase = Serving /\ probe[v].pc = "idle"
    /\ probe' = [probe EXCEPT ![v] =
         IF ~Validate(tok)
         THEN [Presented(tok) EXCEPT !.pc = "done", !.answer = "invalid_token"]
         ELSE IF tok.claims.sub = Blank
         THEN [Presented(tok) EXCEPT !.pc = "done", !.answer = "no_subject"]
         ELSE [Presented(tok) EXCEPT !.pc = "select"]]
    /\ UNCHANGED <<maVars, now, key, issued, revoked>>

EmailClaim(claims) == IF "email" \in DOMAIN claims THEN claims.email ELSE Blank

Profile(v, email, failed) ==
    probe' = [probe EXCEPT ![v].pc = "done", ![v].answer = "profile",
                           ![v].email = email, ![v].failed = failed]

\* Slip: the claims win over the row.
AnswerProfileClaims(v) ==
    LET claims == probe[v].token.claims
    IN  /\ phase = Serving /\ probe[v].pc = "select"
        /\ Profile(v, IF EmailClaim(claims) = Blank /\ claims.sub \in DOMAIN db.users
                      THEN db.users[claims.sub].email ELSE EmailClaim(claims), FALSE)
        /\ UNCHANGED <<maVars, now, key, issued, revoked>>

\* ... and the user: the row, or the claims if there is none or the query fails.
AnswerProfile(v) ==
    LET claims == probe[v].token.claims
    IN  /\ phase = Serving /\ probe[v].pc = "select"
        /\ \/ /\ claims.sub \in DOMAIN db.users
              /\ Profile(v, db.users[claims.sub].email, FALSE)
           \/ /\ claims.sub \notin DOMAIN db.users
              /\ Profile(v, EmailClaim(claims), FALSE)
           \/ Profile(v, EmailClaim(claims), TRUE)
        /\ UNCHANGED <<maVars, now, key, issued, revoked>>

\* NewIssuer: every process has a key of its own.
NewIssuer == key' = key + 1

Restart ==
    /\ Crash
    /\ NewIssuer
    /\ probe' = [v \in Probes |->
                   IF probe[v].pc = "select"
                   THEN [probe[v] EXCEPT !.pc = "done", !.answer = "lost"]
                   ELSE probe[v]]
    /\ UNCHANGED <<now, issued, revoked>>

Tick ==
    /\ now < MaxTime
    /\ now' = now + 1
    /\ UNCHANGED <<maVars, key, issued, probe, revoked>>

TVNext ==
    \/ Operate /\ UNCHANGED tvVars
    \/ Restart
    \/ IssueToken
    \/ \E v \in Probes, tok \in issued : Introspect(v, tok)
    \/ \E v \in Probes, tok \in issued : PresentToken(v, tok)
    \/ \E v \in Probes : AnswerProfile(v)
    \/ \E tok \in issued : RevokeSigned(tok)
    \/ Tick

TVSpec == TVInit /\ [][TVNext]_<<maVars, tvVars>>

-----------------------------------------------------------------------------
\* Whether the request's token was found good.
Accepted(p) ==
    p.token # NoToken /\ p.answer \notin {"inactive", "invalid_token", "no_subject"}

\* The rules and the environment left alone what Validate looks at.
Standard(tok) ==
    \A c \in {"iss", "exp", "nbf"} :
        /\ \A i \in DOMAIN tok.rules : c \notin DOMAIN tok.rules[i].set
        /\ tok.kind = "access" => c \notin DOMAIN ExtraClaims

(* Tokens are accepted exactly in their life: one whose issuer, lifetime   *)
(* and start no rule set is accepted by a request if and only if the       *)
(* process that issued it is the one that answers, the lifetime since its  *)
(* issue is not over and, unless it is only introspected, it names a       *)
(* subject; any other, only by the process that issued it.  (Whether it    *)
(* was sent to /oauth/revoke makes no difference.)                         *)
AcceptedExactlyWhileGood ==
    \A v \in {w \in Probes : probe[w].token # NoToken} : LET p == probe[v] IN
        /\ Accepted(p) => p.own
        /\ Standard(p.token) =>
             (Accepted(p) <=> /\ p.own /\ p.young
                              /\ \/ p.answer \in {"active", "inactive"}
                                 \/ p.token.claims.sub # Blank)

(* README.md: POST /oauth/revoke revokes a refresh or an access token, so  *)
(* that a token sent there earlier is not accepted by a later request.     *)
RevokedTokensRefused ==
    \A v \in Probes : probe[v].revoked => ~Accepted(probe[v])

\* Script i is reached, and what it hands to the callback is used.
Reached(rules, i) == \A j \in 1..(i - 1) : ~rules[j].throws
Returns(rules, i, back) ==
    Reached(rules, i) /\ ~rules[i].throws /\ rules[i].back = back

\* A script up to i handed the user back, and none dropped it since.
HandedBack(rules, i) ==
    \E j \in 1..i : /\ Returns(rules, j, "user")
                    /\ \A k \in j..i : ~Returns(rules, k, "other")

\* The scripts, of the first n, whose value of the claim c counts.
Counting(rules, n, c) ==
    {i \in 1..n : /\ c \in DOMAIN rules[i].set
                  /\ Reached(rules, i) /\ HandedBack(rules, i)
                  /\ \A k \in i..n : ~Returns(rules, k, "other")}

\* The scripts, of the first n, whose value of the field f counts.
Assigning(rules, n, f) ==
    {i \in 1..n : /\ f \in DOMAIN rules[i].fields
                  /\ Returns(rules, i, "user") \/ Returns(rules, i, "other")
                  /\ \A k \in (i + 1)..n : ~Returns(rules, k, "other")}

\* The user's fields for tok, and the name it shows (a refresh: the row's).
Final(tok, f) ==
    LET n == Len(tok.rules)
        by == Assigning(tok.rules, n, f)
    IN  IF by # {} THEN tok.rules[Max(by)].fields[f]
        ELSE IF \E k \in 1..n : Returns(tok.rules, k, "other") THEN Blank
        ELSE tok.row[f]
FinalName(tok) ==
    IF tok.kind = "renewed" THEN tok.row.name
    ELSE ShownName([f \in DOMAIN tok.row |-> Final(tok, f)])

\* The claims of an ID token that the issuer sets whatever the rules say.
IssuerSets(tok, c) ==
    /\ tok.kind \in {"id", "renewed"}
    /\ \/ /\ c \in {"email", "email_verified"}
          /\ "email" \in tok.scope /\ Final(tok, "email") # Blank
       \/ /\ c \in {"name", "nickname", "given_name", "family_name"}
          /\ "profile" \in tok.scope /\ FinalName(tok) # Blank
          /\ c = "family_name" => Len(Words(FinalName(tok))) > 1

\* The claims of tok are what the issuer, its rules and the environment made them.
ClaimsFollow(tok) ==
    \A c \in DOMAIN tok.claims \cup DOMAIN ExtraClaims \cup
             {"iss", "exp", "email", "email_verified", "name", "nickname",
              "given_name", "family_name"} \cup
             UNION {DOMAIN tok.rules[i].set : i \in DOMAIN tok.rules} :
        LET by == Counting(tok.rules, Len(tok.rules), c)
            name == FinalName(tok)
        IN  IF IssuerSets(tok, c)
            THEN /\ c \in DOMAIN tok.claims
                 /\ c = "email" => tok.claims[c] = Final(tok, "email")
                 /\ c = "email_verified" => tok.claims[c] = TRUE
                 /\ c \in {"name", "nickname"} => tok.claims[c] = name
                 /\ c = "given_name" => tok.claims[c] = Words(name)[1]
                 /\ c = "family_name" => tok.claims[c] = Words(name)[2]
            ELSE IF tok.kind = "access" /\ c \in DOMAIN ExtraClaims
            THEN c \in DOMAIN tok.claims /\ tok.claims[c] = ExtraClaims[c]
            ELSE IF by # {}
            THEN c \in DOMAIN tok.claims /\ tok.claims[c] = tok.rules[Max(by)].set[c]
            ELSE /\ c = "iss" => tok.claims[c] = "url/"
                 /\ c = "exp" => tok.claims[c] = tok.at + Lifetime
                 /\ c \in DOMAIN tok.claims => c \in {"sub", "iss", "exp"}

(* What of the rules reaches a token: the claims of the scripts up to the  *)
(* first that throws, that one included if an earlier one had handed the   *)
(* user back; a script that hands back nothing counts on the same          *)
(* condition; one that hands back another object takes back everything     *)
(* before it; and ACCESS_TOKEN_EXTRA_CLAIMS win in access tokens.  In ID   *)
(* tokens the email and the names win that the scripts left in the user's  *)
(* own fields, if the scope asks for them and they are not empty.  There   *)
(* are no other claims than these and the issuer's own.                    *)
ClaimsFollowRules == \A tok \in issued : ClaimsFollow(tok)

(* A profile follows the database: a /userinfo or /tokeninfo request that  *)
(* arrives after a PATCH of the user's email was answered shows that email,*)
(* whatever the token's claims say, unless the query failed or another     *)
(* request deletes the user or sets the email.                             *)
ProfileFollowsPatch ==
    \A v \in Probes : LET p == probe[v] IN
        p.answer = "profile" /\ ~p.failed =>
          \A t \in p.after :
            \/ p.email = th[t].req.set.email
            \/ \E o \in Threads \ {t} :
                 /\ th[o].req # NoRequest
                 /\ \/ th[o].req.op = "delete_user"
                    \/ /\ th[o].req.op = "patch" /\ th[o].req.table = "users"
                       /\ "email" \in DOMAIN th[o].req.set
                 /\ th[o].req.id = p.token.claims.sub
=============================================================================
