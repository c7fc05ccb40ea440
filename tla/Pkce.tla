-------------------------------- MODULE Pkce --------------------------------
(* The PKCE check of an authorization code, internal/pkce/pkce.go.         *)
CONSTANTS
    Strings,    \* non-empty verifiers and challenges
    Empty,      \* the empty string
    Digest(_)   \* base64url(sha256(s)), external

ASSUME DigestAssumption ==
    /\ Empty \notin Strings
    /\ \A s \in Strings : Digest(s) \in Strings
    /\ \A s, t \in Strings : Digest(s) = Digest(t) => s = t

Methods == {"S256", "plain", "other"}

VerifyS256(verifier, challenge) ==
    /\ verifier # Empty
    /\ challenge # Empty
    /\ Digest(verifier) = challenge

VerifyPlain(verifier, challenge) ==
    verifier # Empty /\ verifier = challenge

\* Verify returns no error.  (handleAuthorize and handleLogin have already
\* replaced a missing method by S256.)
Verify(verifier, challenge, method) ==
    /\ verifier # Empty
    /\ challenge # Empty
    /\ \/ method = "S256" /\ VerifyS256(verifier, challenge)
       \/ method = "plain" /\ VerifyPlain(verifier, challenge)
=============================================================================
