------------------------- MODULE MCTokenValidation --------------------------
(* TokenValidation for TLC, on the database and the requests of            *)
(* MCManagementApi.                                                        *)
EXTENDS TokenValidation, MCManagementApi

\* The requests that change what a profile shows of u1.
ProfileRequests ==
    { Patch("users", "u1", [email |-> "e2"]), Patch("users", "u1", [name |-> "n2"]),
      ById("delete_user", "u1") }

\* "n3" is of two words.
MCWords(name) == IF name = "n3" THEN <<"n1", "n2">> ELSE <<name>>

Rule(set, fields, back, throws) ==
    [set |-> set, fields |-> fields, back |-> back, throws |-> throws]

MCRuleFiles ==
    { << >>,
      \* another issuer
      << Rule([iss |-> "other"], << >>, "user", FALSE) >>,
      \* rules that count although a later one throws
      << Rule([exp |-> MaxTime + 1], << >>, "user", FALSE),
         Rule([tenant |-> "t2"], [name |-> "n3"], "none", TRUE),
         Rule([exp |-> 1, tenant |-> "t3"], [name |-> "n3"], "user", FALSE) >>,
      \* a rule that counts for nothing before one that does, then another object
      << Rule([tenant |-> "t2"], << >>, "none", FALSE),
         Rule([tenant |-> "t3"], [email |-> "e4"], "user", FALSE),
         Rule([tenant |-> "t4"], [nickname |-> "n3"], "other", FALSE),
         Rule([tenant |-> "t5"], << >>, "none", FALSE) >>,
      \* claims that the issuer overrides, and a token that is not good yet
      << Rule([email |-> "e4", email_verified |-> FALSE, name |-> "n2",
               family_name |-> "n2", nbf |-> 1],
              [name |-> "n3"], "user", FALSE) >>,
      \* nobody, for ever; a claim of the issuer's that is none; a
      \* user without names under an id that nobody has
      << Rule([sub |-> Blank, exp |-> 0, email |-> "e4"], [email |-> Blank],
              "user", FALSE) >>,
      << Rule([exp |-> Blank], << >>, "user", FALSE) >>,
      << Rule([sub |-> "u2", nickname |-> "n2"],
              [name |-> Blank, nickname |-> Blank], "user", FALSE) >> }

MCExtraClaims == [tenant |-> "t1"]

Busy == {t \in Threads : th[t].pc # "idle"}

\* What there is beside a token: requests that change what a profile shows, and
\* beside them only some tokens of u1, none of them revoked, and a crash in the
\* place of a request.
Budget ==
    /\ issued # {} => \A t \in Busy : th[t].req \in ProfileRequests
    /\ issued # {} /\ Busy # {} =>
         /\ \A tok \in issued : /\ tok.rules = << >> /\ tok.claims.sub = "u1"
                                /\ tok.kind = "access" \/ tok.scope = {"email"}
         /\ revoked = {}
         /\ Cardinality(Busy) + crashes <= 2

\* No token is issued that Budget would discard, and the clock waits for one.
MCNext ==
    \/ Operate /\ UNCHANGED tvVars
    \/ Restart
    \/ (\A t \in Busy : th[t].req \in ProfileRequests) /\ IssueToken
    \/ \E v \in Probes, tok \in issued : Introspect(v, tok)
    \/ \E v \in Probes, tok \in issued : PresentToken(v, tok)
    \/ \E v \in Probes : AnswerProfile(v)
    \/ \E tok \in issued : RevokeSigned(tok)
    \/ issued # {} /\ Tick

MCSpec == TVInit /\ [][MCNext]_<<maVars, tvVars>>
=============================================================================
