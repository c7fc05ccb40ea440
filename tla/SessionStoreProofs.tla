------------------------- MODULE SessionStoreProofs -------------------------
(* Proofs about SessionStore, for every set of sessions and every lifetime.*)
EXTENDS SessionStore, TLAPS

(* The deadline of a stored session is its last use plus the lifetime.     *)
StoredIsFresh ==
    /\ \A s \in DOMAIN sessions :
         /\ sessions[s].expiresAt = lastUse[s] + SessionTTL
         /\ sessions[s].user = opened[s]
         /\ s \notin ended
    /\ \A s \in DOMAIN lastUse : lastUse[s] <= now

(* A session is missing only if it was revoked or its deadline has passed. *)
MissingIsOver ==
    \A s \in DOMAIN opened \ (DOMAIN sessions \cup ended) :
        now > lastUse[s] + SessionTTL

(* The inductive invariant.  A restart keeps its first part, on which the  *)
(* proofs about LoginFlow build; the second holds while the process runs.  *)
SSSound == SSTypeOK /\ StoredIsFresh
SSInv == SSSound /\ MissingIsOver

(* A new store has no sessions.                                            *)
LEMMA SSInvInit == SSInit => SSInv
BY DEF SSInit, SSInv, SSSound, SSTypeOK, StoredIsFresh, MissingIsOver

(* Create keeps the invariant: the new session's deadline and last use     *)
(* come from the same clock reading, and the clean-up drops only sessions  *)
(* whose deadline has passed.                                              *)
LEMMA CreateStep ==
    ASSUME SSSound, NEW sid \in SessionIDs \ DOMAIN opened, NEW u \in Users,
           NEW stamp \in 0..now, Create(sid, u, stamp)
    PROVE  SSSound' /\ (MissingIsOver => MissingIsOver')
<1> USE SessionAssumption
<1> DEFINE kept == {s \in DOMAIN sessions : ~Expired(sessions[s].expiresAt)}
<1>1. /\ DOMAIN sessions' = kept \cup {sid}
      /\ sessions'[sid] = [user |-> u, expiresAt |-> stamp + SessionTTL]
      /\ \A s \in kept : s # sid => sessions'[s] = sessions[s]
  BY DEF Create, Put, CleanExpired, Without, Restrict
<1>2. /\ DOMAIN opened' = DOMAIN opened \cup {sid}
      /\ opened'[sid] = u
      /\ \A s \in DOMAIN opened : opened'[s] = opened[s]
      /\ DOMAIN lastUse' = DOMAIN lastUse \cup {sid}
      /\ lastUse'[sid] = stamp
      /\ \A s \in DOMAIN lastUse : s # sid => lastUse'[s] = lastUse[s]
      /\ now' = now /\ ended' = ended
  BY DEF Create, Put
<1>3. SSTypeOK'
  BY <1>1, <1>2 DEF SSSound, SSTypeOK
<1>4. StoredIsFresh'
  BY <1>1, <1>2 DEF SSSound, SSTypeOK, StoredIsFresh, Expired
<1>5. MissingIsOver => MissingIsOver'
  BY <1>1, <1>2 DEF SSSound, SSTypeOK, StoredIsFresh, MissingIsOver, Expired
<1> QED
  BY <1>3, <1>4, <1>5 DEF SSSound

(* Get keeps the invariant: it moves the deadline with the last use.       *)
LEMMA GetStep ==
    ASSUME SSSound, NEW sid \in SessionIDs, Get(sid)
    PROVE  SSSound' /\ (MissingIsOver => MissingIsOver')
<1> USE SessionAssumption
<1> DEFINE kept == {s \in DOMAIN sessions : ~Expired(sessions[s].expiresAt)}
<1>1. now' = now /\ opened' = opened /\ ended' = ended
  BY DEF Get
<1>2. DOMAIN sessions' = kept
  BY DEF Get, CleanExpired, Without, Restrict
<1>3. CASE SessionLive(sid)
  <2>1. /\ sid \in kept
        /\ sessions'[sid] = [sessions[sid] EXCEPT !.expiresAt = now + SessionTTL]
        /\ \A s \in kept : s # sid => sessions'[s] = sessions[s]
    BY <1>3 DEF Get, SessionLive, CleanExpired, Without, Restrict
  <2>2. /\ DOMAIN lastUse' = DOMAIN lastUse \cup {sid}
        /\ lastUse'[sid] = now
        /\ \A s \in DOMAIN lastUse : s # sid => lastUse'[s] = lastUse[s]
    BY <1>3 DEF Get, Put
  <2>3. sessions'[sid] = [user |-> sessions[sid].user,
                          expiresAt |-> now + SessionTTL]
    BY <2>1 DEF SSSound, SSTypeOK
  <2>4. SSTypeOK'
    <3>1. /\ kept \subseteq DOMAIN opened
          /\ DOMAIN lastUse' = DOMAIN opened
          /\ \A s \in DOMAIN lastUse : lastUse'[s] \in Nat
      BY <2>1, <2>2 DEF SSSound, SSTypeOK
    <3>2. \A s \in kept : sessions'[s] \in [user : Users, expiresAt : Nat]
      BY <2>1, <2>3 DEF SSSound, SSTypeOK
    <3> HIDE DEF kept
    <3> QED
      BY <1>1, <1>2, <3>1, <3>2 DEF SSSound, SSTypeOK
  <2>5. StoredIsFresh'
    BY <1>1, <1>2, <2>1, <2>2, <2>3
       DEF SSSound, SSTypeOK, StoredIsFresh, Expired
  <2>6. MissingIsOver => MissingIsOver'
    BY <1>1, <1>2, <2>1, <2>2, <2>3
       DEF SSSound, SSTypeOK, StoredIsFresh, MissingIsOver, Expired
  <2> QED
    BY <2>4, <2>5, <2>6 DEF SSSound
<1>4. CASE ~SessionLive(sid)
  <2>1. lastUse' = lastUse /\ \A s \in kept : sessions'[s] = sessions[s]
    BY <1>4 DEF Get, CleanExpired, Without, Restrict
  <2> QED
    BY <1>1, <1>2, <2>1
       DEF SSSound, SSTypeOK, StoredIsFresh, MissingIsOver, Expired
<1> QED
  BY <1>3, <1>4

(* Every step keeps both parts of the invariant.                           *)
LEMMA SSSoundStep ==
    ASSUME SSSound, [SSNext]_ssVars
    PROVE  SSSound' /\ (MissingIsOver => MissingIsOver')
<1> USE DEF SSSound, SSTypeOK, StoredIsFresh, MissingIsOver
<1>1. ASSUME NEW sid \in SessionIDs, Revoke(sid)
      PROVE  SSSound' /\ (MissingIsOver => MissingIsOver')
  BY <1>1 DEF Revoke, Without, Restrict
<1>2. CASE SSTick
  BY <1>2, SessionAssumption DEF SSTick, Tick
<1>3. CASE UNCHANGED ssVars
  BY <1>3 DEF ssVars
<1> HIDE DEF SSSound, MissingIsOver
<1> QED
  BY <1>1, <1>2, <1>3, CreateStep, GetStep DEF SSNext

LEMMA SSInvStep == SSInv /\ [SSNext]_ssVars => SSInv'
BY SSSoundStep DEF SSInv

(* The invariant gives both properties.                                    *)
LEMMA SSInvMeaning == SSInv => RevokedSessionsStayOut /\ SlidingLifetime
<1> SUFFICES ASSUME SSInv PROVE RevokedSessionsStayOut /\ SlidingLifetime
  OBVIOUS
<1>1. RevokedSessionsStayOut
  BY DEF SSInv, SSSound, StoredIsFresh, RevokedSessionsStayOut
<1>2. SlidingLifetime
  BY SessionAssumption
     DEF SSInv, SSSound, SSTypeOK, StoredIsFresh, MissingIsOver, SlidingLifetime,
         SessionLive, Expired
<1> QED
  BY <1>1, <1>2

(* The inductive invariant holds in every reachable state.                 *)
LEMMA SSInvHolds == SSSpec => []SSInv
<1> QED
  BY SSInvInit, SSInvStep, PTL DEF SSSpec

(* Type correctness of the session store.                                  *)
THEOREM SessionTyping == SSSpec => []SSTypeOK
<1>1. SSInv => SSTypeOK
  BY DEF SSInv, SSSound
<1> QED
  BY <1>1, SSInvHolds, PTL

(* A revoked session is never in the store again.                          *)
THEOREM RevokeIsFinal == SSSpec => []RevokedSessionsStayOut
<1>1. SSInv => RevokedSessionsStayOut
  BY SSInvMeaning
<1> QED
  BY <1>1, SSInvHolds, PTL

(* A session is honoured, for its own user, exactly until the lifetime     *)
(* after its last use, for any number of sessions and any lifetime.        *)
THEOREM SlidingExpiry == SSSpec => []SlidingLifetime
<1>1. SSInv => SlidingLifetime
  BY SSInvMeaning
<1> QED
  BY <1>1, SSInvHolds, PTL
=============================================================================
