---------------------------- MODULE SessionStore ----------------------------
(***************************************************************************)
(* The server-side login sessions, internal/sessions/sessions.go.  Every   *)
(* method runs under the store's mutex; Create computes the deadline       *)
(* before it takes the mutex, so the clock reading is a parameter.         *)
(***************************************************************************)
EXTENDS Runtime

CONSTANTS
    SessionIDs,   \* "sid_" and 16 random bytes
    SessionTTL

ASSUME SessionAssumption == SessionTTL \in Nat \ {0}

VARIABLES
    sessions,   \* Store.sessions: session id -> [user, expiresAt]
    opened,     \* history: session id -> the user it was created for
    lastUse,    \* history: session id -> when it was created or last returned
    ended       \* history: session ids revoked

ssVars == <<now, sessions, opened, lastUse, ended>>

SSInit ==
    /\ now = 0
    /\ sessions = << >>
    /\ opened = << >>
    /\ lastUse = << >>
    /\ ended = {}

\* Slip: the lifetime is subtracted from the clock.
CreatePast(sid, user, stamp) ==
    /\ sessions' = Put(CleanExpired(sessions), sid,
                       [user |-> user, expiresAt |-> stamp - SessionTTL])
    /\ opened' = Put(opened, sid, user)
    /\ lastUse' = Put(lastUse, sid, stamp)
    /\ UNCHANGED <<now, ended>>

Create(sid, user, stamp) ==
    /\ sessions' = Put(CleanExpired(sessions), sid,
                       [user |-> user, expiresAt |-> stamp + SessionTTL])
    /\ opened' = Put(opened, sid, user)
    /\ lastUse' = Put(lastUse, sid, stamp)
    /\ UNCHANGED <<now, ended>>

\* Slip: the deadline is left to the clean-up.
SessionLiveStale(sid) == sid \in DOMAIN sessions

\* Whether Get returns the session.
SessionLive(sid) ==
    sid \in DOMAIN sessions /\ ~Expired(sessions[sid].expiresAt)

\* Slip: the deadline is not moved.
GetNoExtend(sid) ==
    /\ sessions' = CleanExpired(sessions)
    /\ lastUse' = IF SessionLive(sid) THEN Put(lastUse, sid, now) ELSE lastUse
    /\ UNCHANGED <<now, opened, ended>>

\* Get moves the deadline of the session it returns.
Get(sid) ==
    LET kept == CleanExpired(sessions)
    IN  /\ IF SessionLive(sid)
           THEN /\ sessions' = [kept EXCEPT ![sid].expiresAt = now + SessionTTL]
                /\ lastUse' = Put(lastUse, sid, now)
           ELSE /\ sessions' = kept
                /\ UNCHANGED lastUse
        /\ UNCHANGED <<now, opened, ended>>

\* Slip: the session is only marked as expired.
RevokeMarks(sid) ==
    /\ sessions' = [s \in DOMAIN sessions |->
                      IF s = sid THEN [sessions[s] EXCEPT !.expiresAt = now]
                      ELSE sessions[s]]
    /\ ended' = ended \cup ({sid} \cap DOMAIN opened)
    /\ UNCHANGED <<now, opened, lastUse>>

Revoke(sid) ==
    /\ sessions' = Without(sessions, {sid})
    /\ ended' = ended \cup ({sid} \cap DOMAIN opened)
    /\ UNCHANGED <<now, opened, lastUse>>

SSTick == Tick /\ UNCHANGED <<sessions, opened, lastUse, ended>>

SSNext ==
    \/ \E sid \in SessionIDs \ DOMAIN opened, u \in Users, stamp \in 0..now :
           Create(sid, u, stamp)
    \/ \E sid \in SessionIDs : Get(sid)
    \/ \E sid \in SessionIDs : Revoke(sid)
    \/ SSTick

SSSpec == SSInit /\ [][SSNext]_ssVars

-----------------------------------------------------------------------------
(* The type invariant of the session map and its histories.                *)
SSTypeOK ==
    /\ now \in Nat
    /\ DOMAIN sessions \subseteq DOMAIN opened
    /\ \A s \in DOMAIN sessions : sessions[s] \in [user : Users, expiresAt : Nat]
    /\ DOMAIN opened \subseteq SessionIDs
    /\ \A s \in DOMAIN opened : opened[s] \in Users
    /\ DOMAIN lastUse = DOMAIN opened
    /\ \A s \in DOMAIN lastUse : lastUse[s] \in Nat
    /\ ended \subseteq DOMAIN opened

(* Revoke is final: no Get that extends a session and no clean-up brings a *)
(* revoked session back.                                                   *)
RevokedSessionsStayOut == ended \cap DOMAIN sessions = {}

(* The sliding lifetime: a session that is not revoked is honoured, for the*)
(* user it was created for, exactly until SessionTTL after its last use,   *)
(* whatever clean-ups other sessions' operations run.                      *)
SlidingLifetime ==
    \A s \in DOMAIN opened \ ended :
        /\ SessionLive(s) <=> now <= lastUse[s] + SessionTTL
        /\ s \in DOMAIN sessions => sessions[s].user = opened[s]
=============================================================================
