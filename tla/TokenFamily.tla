---------------------------- MODULE TokenFamily -----------------------------
(***************************************************************************)
(* What the token endpoint promises about the credentials of one sign-in,  *)
(* whatever requests interleave: they are handed on like a baton.  A code  *)
(* or a refresh token is traded to one request, the request trades it for  *)
(* one refresh token never seen before, and the holder may disappear       *)
(* (expiry, revocation, refusal, restart).  Once nobody holds the baton    *)
(* nobody ever will.                                                       *)
(***************************************************************************)
CONSTANTS Sids, Codes, RefreshTokens, Threads

VARIABLES
    begun,    \* sign-ins that have taken place
    bearers,  \* sign-in -> who can continue it
    seen      \* codes and refresh tokens handed out so far

vars == <<begun, bearers, seen>>

Init ==
    /\ begun = {}
    /\ bearers = [s \in Sids |-> {}]
    /\ seen = {}

\* A sign-in yields a fresh code, or a request that will save a token.
Start(s) ==
    /\ s \notin begun
    /\ s \in begun'
    /\ \/ \E c \in Codes \ seen : bearers'[s] = {c} /\ c \in seen'
       \/ \E t \in Threads : bearers'[s] = {t}
       \/ bearers'[s] = {}

Take(s) ==
    \E x \in Codes \cup RefreshTokens, t \in Threads :
        bearers[s] = {x} /\ bearers'[s] = {t}

Give(s) ==
    \E t \in Threads, k \in RefreshTokens \ seen :
        bearers[s] = {t} /\ bearers'[s] = {k} /\ k \in seen'

\* One step may move several sign-ins: a save also cleans expired entries.
Next ==
    /\ begun \subseteq begun'
    /\ seen \subseteq seen'
    /\ \A s \in Sids :
         \/ bearers'[s] = bearers[s] /\ (s \in begun' <=> s \in begun)
         \/ Start(s)
         \/ s \in begun /\ Take(s)
         \/ s \in begun /\ Give(s)
         \/ s \in begun /\ bearers'[s] = {}

Spec == Init /\ [][Next]_vars
=============================================================================
