---------------------------- MODULE MCLoginFlow -----------------------------
(* LoginFlow for TLC.                                                      *)
EXTENDS LoginFlow, TLC

CONSTANTS cl1, cl2,
    Prompts, Responses,  \* the prompt and response_type values sent
    Paths,               \* where credentials are sent
    Refusals             \* whether requests that fail are sent too

MCScopes == {"openid"}
MCURIs == [site : {"app", "other", "bad"}, slash : {FALSE}, query : {FALSE}]
MCURI == [site |-> "app", slash |-> FALSE, query |-> FALSE]
MCBadURIs == {[MCURI EXCEPT !.site = "bad"]}
MCAuthCodes == [user : Users, client : ClientIDs, uri : URIs,
                scope : SUBSET Scopes]

\* cl1 may only use MCURI, cl2 is not in the registry.
MCRegistry == [c \in {cl1} |-> [ClientSecret |-> NoSecret,
                                RedirectURIs |-> {MCURI},
                                AllowedScopes |-> MCScopes]]

Request(path, b, u, ok, cl, uri, resp, prompt) ==
    [path |-> path, browser |-> b, user |-> u, correct |-> ok, client |-> cl,
     given |-> IF u # NoUser THEN "both" ELSE IF cl = NoClient THEN "none" ELSE "one",
     uri |-> uri, scope |-> MCScopes, response |-> resp, promptNone |-> prompt]

Refusing == IF Refusals THEN Browsers ELSE {}

\* /authorize by cookie, /login and /authorize with credentials, a wrong
\* password, half of the credentials, and a redirect URI that is missing, not
\* registered or unparsable.
MCRequests ==
    {Request("authorize", b, NoUser, FALSE, NoClient, MCURI, resp, FALSE) :
        b \in Browsers, resp \in Responses}
    \cup {Request("authorize", b, NoUser, FALSE, NoClient, MCURI, "code", p) :
        b \in Browsers, p \in Prompts}
    \cup {Request(path, b, u, TRUE, cl1, MCURI, resp, FALSE) :
        path \in Paths, b \in Browsers, u \in Users,
        resp \in Responses \ {"other"}}
    \cup {Request("login", b, u, TRUE, cl1, uri, resp, FALSE) :
        b \in Refusing, u \in Users, uri \in BadURIs, resp \in {"code", "token"}}
    \cup {Request(path, b, u, FALSE, cl1, MCURI, "code", FALSE) :
        path \in Paths, b \in Refusing, u \in Users \cup {NoUser}}
    \cup {Request("authorize", b, u, FALSE, cl1, uri, "code", FALSE) :
        b \in Refusing, u \in Users, uri \in {[MCURI EXCEPT !.site = "other"]}}
    \cup {Request("login", b, u, FALSE, cl1, NoURI, "code", FALSE) :
        b \in Refusing, u \in Users}

Symmetry ==
    Permutations(Codes) \cup Permutations(SessionIDs) \cup Permutations(Users)
        \cup Permutations(Threads)
=============================================================================
