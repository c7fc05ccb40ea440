-------------------------- MODULE MCTokenEndpoint ---------------------------
(* TokenEndpoint for TLC.                                                  *)
EXTENDS TokenEndpoint, TLC

CONSTANTS cl1, cl2, v1, h1, s1, u1, Kinds,
    AskedClients,  \* the client_id of exchanges: cl1 is right, cl2 is wrong
    OnlineCodes    \* whether codes without offline_access are issued too

MCScopes == {"openid", "offline_access"}
MCURIs == [site : {"app"}, slash : BOOLEAN, query : BOOLEAN]
MCURI == [site |-> "app", slash |-> FALSE, query |-> FALSE]
MCDigest(s) == IF s = v1 THEN h1 ELSE v1

\* cl1 is configured and confidential, cl2 is not in the registry.
MCRegistry == [c \in {cl1} |-> [ClientSecret |-> s1, RedirectURIs |-> {},
                                AllowedScopes |-> {}]]

\* Codes with a challenge, with offline_access and without.
MCAuthCodes ==
    {[user |-> u1, client |-> cl1, uri |-> MCURI, scope |-> sc,
      challenge |-> h1, method |-> "S256", sid |-> sid] :
        sid \in Sids, sc \in {MCScopes} \cup (IF OnlineCodes THEN {{"openid"}} ELSE {})}

MCRefreshGrants ==
    [user : Users, client : ClientIDs, scope : SUBSET Scopes, sid : Sids]

\* Exchanges with a trailing slash and a query that normalizeURI drops.
ExchangeRequests ==
    {[kind |-> "authorization_code", code |-> c, client |-> cl,
      uri |-> [MCURI EXCEPT !.slash = TRUE, !.query = TRUE],
      verifier |-> v1, secret |-> s1] :
        c \in Codes, cl \in AskedClients}

RefreshRequests ==
    {[kind |-> "refresh_token", token |-> k, client |-> cl] :
        k \in RefreshTokens, cl \in {cl1, cl2}}

PasswordRequests ==
    {[kind |-> "password", user |-> u1, correct |-> ok, client |-> NoClient,
      scope |-> sc] : ok \in BOOLEAN, sc \in {MCScopes, {}}}

MCRequests ==
    {r \in ExchangeRequests \cup RefreshRequests \cup PasswordRequests :
        r.kind \in Kinds}

Symmetry ==
    Permutations(Codes) \cup Permutations(RefreshTokens)
        \cup Permutations(Threads) \cup Permutations(Sids)
=============================================================================
