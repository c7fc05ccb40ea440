------------------------ MODULE TokenEndpointProofs -------------------------
(* Proofs about TokenEndpoint, for any number of requests, codes, tokens,  *)
(* sign-ins and restarts.                                                  *)
EXTENDS TokenEndpoint, GrantStoreProofs

(* What the fields of a request say at each of its program points.         *)
RequestInPlace(t) ==
    /\ th[t].pc = "idle" => th[t] = Idle
    /\ th[t].pc # "idle" => th[t].req \in Requests
    /\ th[t].pc \in {"replay", "lookup", "cache"} =>
         th[t].req.kind = "authorization_code"
    /\ th[t].pc \in {"replay", "lookup"} => th[t].body = NoBody
    /\ InHand(t) => th[t].grant \in RefreshGrants
    /\ th[t].pc \in {"stamp", "save"} =>
         "offline_access" \in th[t].grant.scope
    /\ th[t].pc \in {"stamp", "save", "cache"} =>
         th[t].body \in Bodies /\ MintedBy(t)
    /\ th[t].pc # "done" => th[t].status = "none"
    /\ th[t].status = "ok" => th[t].body \in Bodies /\ MintedBy(t)
    /\ th[t].status = "replayed" => IsKind(t, "authorization_code")
    /\ th[t].seen = "answered" => IsKind(t, "authorization_code")
    /\ MintedBy(t) => th[t].grant # NoGrant
    /\ IsKind(t, "authorization_code") /\ th[t].grant # NoGrant =>
         th[t].req.code \in spent
    /\ th[t].stamp <= now
RequestsInPlace == \A t \in Threads : RequestInPlace(t)

(* ConsumeCode gives the contents of a code to one request only.           *)
OneTaker ==
    \A t, o \in Threads :
        /\ IsKind(t, "authorization_code") /\ th[t].grant # NoGrant
        /\ IsKind(o, "authorization_code") /\ th[o].grant # NoGrant
        /\ th[t].req.code = th[o].req.code
        => t = o

(* A cache entry is the answer of the request that exchanged the code.     *)
CacheExplained ==
    \A c \in DOMAIN replay : \E o \in Threads :
        /\ Exchanging(o, c)
        /\ th[o].status = "ok"
        /\ replay[c] = [body |-> th[o].body, expires |-> th[o].at + ReplayTTL]

(* Until a restart, an answered exchange is cached or its window is over.  *)
CacheComplete ==
    restarts = 0 => \A o \in Threads :
        IsKind(o, "authorization_code") /\ th[o].status = "ok" =>
            \/ th[o].req.code \in DOMAIN replay
            \/ now > th[o].at + ReplayTTL

(* A replayed answer stems from an exchange that is over.                  *)
ReplaysExplained ==
    \A t \in Threads : th[t].status = "replayed" =>
        \E o \in Threads \ {t} :
            /\ Exchanging(o, th[t].req.code)
            /\ MintedBy(o)
            /\ th[o].pc = "done"
            /\ th[o].body = th[t].body
            /\ th[t].at < th[o].at + ReplayTTL

(* A late duplicate came after an exchange that was answered.              *)
DuplicatesFollow ==
    \A t \in Threads : th[t].seen = "answered" =>
        \E o \in Threads : Exchanging(o, th[t].req.code) /\ th[o].status = "ok"

(* The inductive invariant of the requests and the cache.                  *)
TEInv ==
    /\ TETypeOK
    /\ SpentStaysOut
    /\ RequestsInPlace
    /\ GrantsKeepOrigin
    /\ OneBearer
    /\ RevokedStaysRevoked
    /\ OneTaker
    /\ CacheExplained
    /\ CacheComplete
    /\ ReplaysExplained
    /\ DuplicatesFollow
    /\ LateDuplicateServed

-----------------------------------------------------------------------------
(* The states that the handlers put a request in.                          *)

(* After the step request t has these fields; the others are as before.    *)
After(t, pc, req, grant, body, status, seen) ==
    /\ th' \in [Threads -> ThreadStates]
    /\ \A o \in Threads \ {t} : th'[o] = th[o]
    /\ th'[t].pc = pc /\ th'[t].req = req /\ th'[t].grant = grant
    /\ th'[t].body = body /\ th'[t].status = status /\ th'[t].seen = seen
    /\ th'[t].stamp <= now
    /\ pc = "done" => th'[t].at = now

LEMMA Writes ==
    ASSUME th \in [Threads -> ThreadStates], NEW t \in Threads,
           NEW s \in ThreadStates, th' = [th EXCEPT ![t] = s],
           s.stamp <= now, s.pc = "done" => s.at = now
    PROVE  After(t, s.pc, s.req, s.grant, s.body, s.status, s.seen)
BY DEF After

LEMMA IdleFields ==
    /\ Idle \in ThreadStates
    /\ Idle.pc = "idle" /\ Idle.req = NoRequest /\ Idle.grant = NoGrant
    /\ Idle.stamp = 0 /\ Idle.body = NoBody /\ Idle.status = "none"
    /\ Idle.seen = "new"
BY DEF Idle, ThreadStates, PCs, Statuses

(* sendJSON keeps the request, its grant and its history.                  *)
LEMMA AnsweredFields ==
    ASSUME NEW s \in ThreadStates, NEW status \in Statuses,
           NEW body \in Bodies \cup {NoBody}, now \in Nat
    PROVE  LET n == Answered(s, status, body)
           IN  /\ n \in ThreadStates
               /\ n.pc = "done" /\ n.status = status /\ n.body = body
               /\ n.at = now /\ n.req = s.req /\ n.grant = s.grant
               /\ n.stamp = s.stamp /\ n.seen = s.seen
BY DEF Answered, ThreadStates, PCs

LEMMA StartedFields ==
    ASSUME NEW r \in Requests, NEW pc \in PCs,
           NEW g \in RefreshGrants \cup {NoGrant}
    PROVE  LET n == Started(r, pc, g)
           IN  /\ n \in ThreadStates
               /\ n.pc = pc /\ n.req = r /\ n.grant = g
               /\ n.stamp = 0 /\ n.body = NoBody /\ n.status = "none"
               /\ n.seen = "new"
BY IdleFields DEF Started, ThreadStates

(* The answer under construction names the request that mints it.          *)
MintedBody(t, g) == [access |-> t, openid |-> "openid" \in g.scope,
                     refresh |-> NoToken]

(* Where a request goes when its tokens are signed.                        *)
MintedPc(g, next) == IF "offline_access" \in g.scope THEN "stamp" ELSE next

LEMMA MintedFields ==
    ASSUME NEW s \in ThreadStates, NEW t \in Threads, now \in Nat,
           NEW next \in {"cache", "done"}
    PROVE  LET n == Minted(s, t, next)
           IN  /\ n \in ThreadStates
               /\ n.pc = MintedPc(s.grant, next)
               /\ n.body = MintedBody(t, s.grant)
               /\ n.status = IF n.pc = "done" THEN "ok" ELSE s.status
               /\ n.pc = "done" => n.at = now
               /\ n.req = s.req /\ n.grant = s.grant
               /\ n.stamp = s.stamp /\ n.seen = s.seen
<1> DEFINE body == MintedBody(t, s.grant)
<1>1. body \in Bodies
  BY DEF MintedBody, Bodies
<1>2. CASE "offline_access" \in s.grant.scope
  <2>1. Minted(s, t, next) = [s EXCEPT !.pc = "stamp", !.body = body]
    BY <1>2 DEF Minted, MintedBody
  <2> HIDE DEF body
  <2> QED
    BY <1>1, <1>2, <2>1 DEF ThreadStates, PCs, MintedPc, body
<1>3. CASE "offline_access" \notin s.grant.scope /\ next = "done"
  <2>1. Minted(s, t, next) = Answered(s, "ok", body)
    BY <1>3 DEF Minted, MintedBody
  <2>2. "ok" \in Statuses
    BY DEF Statuses
  <2> HIDE DEF body
  <2>3. LET n == Answered(s, "ok", body)
        IN  /\ n \in ThreadStates
            /\ n.pc = "done" /\ n.status = "ok" /\ n.body = body
            /\ n.at = now /\ n.req = s.req /\ n.grant = s.grant
            /\ n.stamp = s.stamp /\ n.seen = s.seen
    BY <1>1, <2>2, AnsweredFields
  <2>4. MintedPc(s.grant, next) = "done"
    BY <1>3 DEF MintedPc
  <2> QED
    BY <2>1, <2>3, <2>4 DEF body
<1>4. CASE "offline_access" \notin s.grant.scope /\ next # "done"
  <2>1. Minted(s, t, next) = [s EXCEPT !.pc = next, !.body = body]
    BY <1>4 DEF Minted, MintedBody
  <2> HIDE DEF body
  <2> QED
    BY <1>1, <1>4, <2>1 DEF ThreadStates, PCs, MintedPc, body
<1> QED
  BY <1>2, <1>3, <1>4

-----------------------------------------------------------------------------
(* The store.  Every step of the endpoint is one step of the grant store   *)
(* under arbitrary callers, or the restart.                                *)
LEMMA StoreMoves ==
    ASSUME TEInv, [TENext]_teVars
    PROVE  [GSNext]_gsVars \/ Restart
<1> USE DEF GSNext
<1>1. ASSUME NEW t \in Threads, NEW r \in Requests, ExchangeCode(t, r)
      PROVE  GSNext
  BY <1>1, RequestAssumption DEF ExchangeCode
<1>2. ASSUME NEW t \in Threads, NEW r \in Requests, RefreshExchange(t, r)
      PROVE  GSNext
  BY <1>2, RequestAssumption DEF RefreshExchange
<1>3. ASSUME NEW t \in Threads, SaveRefresh(t) PROVE GSNext
  <2>1. th[t].pc = "save" /\ th[t].grant \in RefreshGrants
    BY <1>3 DEF SaveRefresh, TEInv, RequestsInPlace, RequestInPlace, InHand
  <2>2. th[t].stamp \in 0..now
    BY DEF TEInv, TETypeOK, GSTypeOK, ThreadStates, RequestsInPlace,
           RequestInPlace
  <2> QED
    BY <1>3, <2>1, <2>2 DEF SaveRefresh
<1>4. ASSUME NEW tok \in RefreshTokens, Revoke(tok) PROVE GSNext
  BY <1>4 DEF Revoke
<1>5. ASSUME NEW c \in Codes, NEW ac \in AuthCodes, NEW stamp \in 0..now,
             IssueCode(c, ac, stamp)
      PROVE  GSNext
  BY <1>5 DEF IssueCode
<1>6. CASE ClockTick
  BY <1>6 DEF ClockTick
<1>7. CASE UNCHANGED gsVars
  BY <1>7
<1> HIDE DEF GSNext
<1> QED
  BY <1>1, <1>2, <1>3, <1>4, <1>5, <1>6, <1>7
     DEF TENext, Begin, Step, PasswordGrant, ReadReplay, LookupUser, ReadClock,
         CacheResponse, DeleteUser, teVars, gsVars

LEMMA StoreKept ==
    ASSUME TEInv, [TENext]_teVars
    PROVE  /\ GSTypeOK' /\ SpentStaysOut'
           /\ spent \subseteq spent' /\ used \subseteq used' /\ now <= now'
<1>0. GSTypeOK /\ SpentStaysOut /\ now \in Nat
  BY DEF TEInv, TETypeOK, GSTypeOK
<1>1. CASE [GSNext]_gsVars
  <2>1. GSTypeOK' /\ SpentStaysOut'
    BY <1>0, <1>1, TypeStep, SpentStep
  <2>2. spent \subseteq spent' /\ used \subseteq used' /\ now <= now'
    BY <1>0, <1>1, HistoriesGrow
  <2> QED
    BY <2>1, <2>2
<1>2. CASE Restart
  <2>1. StoreRestart
    BY <1>2 DEF Restart
  <2>2. GSTypeOK' /\ SpentStaysOut'
    BY <1>0, <2>1 DEF StoreRestart, GSTypeOK, SpentStaysOut
  <2> QED
    BY <1>0, <2>1, <2>2 DEF StoreRestart
<1> QED
  BY <1>1, <1>2, StoreMoves

-----------------------------------------------------------------------------
(* The requests: what each handler step does to the request that takes it. *)

LEMMA Basics ==
    ASSUME TEInv
    PROVE  /\ th \in [Threads -> ThreadStates] /\ now \in Nat
           /\ \A t \in Threads : th[t] \in ThreadStates /\ RequestInPlace(t)
           /\ NoBody \in Bodies \cup {NoBody}
           /\ Statuses = {"none", "ok", "replayed", "invalid_grant",
                          "server_error", "lost"}
           /\ PCs = {"idle", "replay", "lookup", "stamp", "save", "cache", "done"}
           /\ \A c \in DOMAIN codes :
                /\ codes[c].grant \in AuthCodes
                /\ codes[c].grant.user \in Users
                /\ codes[c].grant.client \in ClientIDs
                /\ codes[c].grant.scope \in SUBSET Scopes
                /\ codes[c].grant.sid \in Sids
           /\ \A k \in DOMAIN refresh : refresh[k].grant \in RefreshGrants
BY ShapeAssumption
   DEF TEInv, TETypeOK, GSTypeOK, Entries, RequestsInPlace, Statuses, PCs

(* What the code grants to the client that presents it.                    *)
Granted(r) ==
    LET ac == codes[r.code].grant
    IN  [user |-> ac.user, client |-> IF r.client # NoClient THEN r.client
                                      ELSE ac.client,
         scope |-> ac.scope, sid |-> ac.sid]

LEMMA GrantedType ==
    ASSUME TEInv, NEW r \in Requests, r.code \in DOMAIN codes
    PROVE  Granted(r) \in RefreshGrants /\ Granted(r) # NoGrant
BY Basics, ShapeAssumption, RequestAssumption DEF Granted

LEMMA ExchangeCodeMoves ==
    ASSUME TEInv, NEW t \in Threads, NEW r \in Requests, ExchangeCode(t, r)
    PROVE  /\ th[t] = Idle /\ r.kind = "authorization_code"
           /\ \/ /\ ~Redeemable(codes, r.code)
                 /\ After(t, "replay", r, NoGrant, NoBody, "none", Seen(r.code))
              \/ After(t, "done", r, NoGrant, NoBody, "invalid_grant", "new")
              \/ /\ Redeemable(codes, r.code)
                 /\ ExchangeAllowed(r, codes[r.code].grant)
                 /\ After(t, "lookup", r, Granted(r), NoBody, "none", "new")
<1>1. th[t] = Idle /\ r.kind = "authorization_code"
  BY Basics DEF ExchangeCode, RequestInPlace
<1>2. /\ NoGrant \in RefreshGrants \cup {NoGrant}
      /\ "replay" \in PCs /\ "done" \in PCs /\ "lookup" \in PCs
      /\ "invalid_grant" \in Statuses
      /\ now \in Nat
  BY Basics
<1>3. Seen(r.code) \in {"new", "spent", "answered"}
  BY DEF Seen
<1>4. CASE ~Redeemable(codes, r.code)
  <2> DEFINE b == Started(r, "replay", NoGrant)
             s == [b EXCEPT !.seen = Seen(r.code)]
  <2>1. /\ b \in ThreadStates /\ b.pc = "replay" /\ b.req = r
        /\ b.grant = NoGrant /\ b.stamp = 0 /\ b.body = NoBody
        /\ b.status = "none"
    BY <1>2, StartedFields
  <2>2. th' = [th EXCEPT ![t] = s]
    BY <1>4 DEF ExchangeCode
  <2> HIDE DEF b
  <2>3. /\ s \in ThreadStates /\ s.pc = "replay" /\ s.req = r
        /\ s.grant = NoGrant /\ s.stamp = 0 /\ s.body = NoBody
        /\ s.status = "none" /\ s.seen = Seen(r.code)
    BY <1>3, <2>1 DEF ThreadStates
  <2> HIDE DEF s
  <2>4. s.stamp <= now
    BY <1>2, <2>3
  <2>5. After(t, s.pc, s.req, s.grant, s.body, s.status, s.seen)
    <3>1. th \in [Threads -> ThreadStates]
      BY Basics
    <3> QED
      BY <2>2, <2>3, <2>4, <3>1, Writes
  <2> QED
    BY <1>1, <1>4, <2>3, <2>5
<1>5. CASE Redeemable(codes, r.code) /\ ~ExchangeAllowed(r, codes[r.code].grant)
  <2> DEFINE b == Started(r, "done", NoGrant)
             s == Answered(b, "invalid_grant", NoBody)
  <2>1. /\ b \in ThreadStates /\ b.req = r /\ b.grant = NoGrant
        /\ b.stamp = 0 /\ b.seen = "new"
    BY <1>2, StartedFields
  <2>2. th' = [th EXCEPT ![t] = s]
    BY <1>5 DEF ExchangeCode
  <2> HIDE DEF b
  <2>3. /\ s \in ThreadStates /\ s.pc = "done" /\ s.req = r
        /\ s.grant = NoGrant /\ s.stamp = 0 /\ s.body = NoBody
        /\ s.status = "invalid_grant" /\ s.seen = "new" /\ s.at = now
    BY <1>2, <2>1, Basics, AnsweredFields
  <2> HIDE DEF s
  <2>4. s.stamp <= now
    BY <1>2, <2>3
  <2>5. th \in [Threads -> ThreadStates]
    BY Basics
  <2>6. After(t, s.pc, s.req, s.grant, s.body, s.status, s.seen)
    BY <2>2, <2>3, <2>4, <2>5, Writes
  <2> QED
    BY <1>1, <2>3, <2>6
<1>6. CASE Redeemable(codes, r.code) /\ ExchangeAllowed(r, codes[r.code].grant)
  <2> DEFINE s == Started(r, "lookup", Granted(r))
  <2>0. Granted(r) \in RefreshGrants \cup {NoGrant}
    BY <1>6, GrantedType DEF Redeemable
  <2>1. /\ s \in ThreadStates /\ s.pc = "lookup" /\ s.req = r
        /\ s.grant = Granted(r) /\ s.stamp = 0 /\ s.body = NoBody
        /\ s.status = "none" /\ s.seen = "new"
    BY <1>2, <2>0, StartedFields
  <2>2. th' = [th EXCEPT ![t] = s]
    BY <1>6 DEF ExchangeCode, Granted
  <2> HIDE DEF s
  <2>3. s.stamp <= now
    BY <1>2, <2>1
  <2>4. th \in [Threads -> ThreadStates]
    BY Basics
  <2>5. After(t, s.pc, s.req, s.grant, s.body, s.status, s.seen)
    BY <2>1, <2>2, <2>3, <2>4, Writes
  <2> QED
    BY <1>1, <1>6, <2>1, <2>5
<1> QED
  BY <1>4, <1>5, <1>6

(* An answer ends the request that gives it.                               *)
LEMMA Answers ==
    ASSUME TEInv, NEW t \in Threads, NEW status \in Statuses,
           NEW body \in Bodies \cup {NoBody},
           th' = [th EXCEPT ![t] = Answered(th[t], status, body)]
    PROVE  After(t, "done", th[t].req, th[t].grant, body, status, th[t].seen)
<1> DEFINE s == Answered(th[t], status, body)
<1>1. th \in [Threads -> ThreadStates] /\ th[t] \in ThreadStates /\ now \in Nat
  BY Basics
<1>2. /\ s \in ThreadStates /\ s.pc = "done" /\ s.status = status
      /\ s.body = body /\ s.at = now /\ s.req = th[t].req
      /\ s.grant = th[t].grant /\ s.stamp = th[t].stamp
      /\ s.seen = th[t].seen
  BY <1>1, AnsweredFields
<1>3. s.stamp <= now
  BY <1>2, Basics DEF RequestInPlace
<1>4. th' = [th EXCEPT ![t] = s]
  OBVIOUS
<1> HIDE DEF s
<1>5. After(t, s.pc, s.req, s.grant, s.body, s.status, s.seen)
  BY <1>1, <1>2, <1>3, <1>4, Writes
<1> QED
  BY <1>2, <1>5

LEMMA ReadReplayMoves ==
    ASSUME TEInv, NEW t \in Threads, ReadReplay(t)
    PROVE  LET req == th[t].req
           IN  /\ th[t].pc = "replay"
               /\ \/ /\ req.code \in DOMAIN replay
                     /\ now < replay[req.code].expires
                     /\ After(t, "done", req, th[t].grant, replay[req.code].body,
                              "replayed", th[t].seen)
                  \/ /\ ~(/\ req.code \in DOMAIN replay
                          /\ now < replay[req.code].expires)
                     /\ After(t, "done", req, th[t].grant, NoBody,
                              "invalid_grant", th[t].seen)
<1> DEFINE code == th[t].req.code
           hit == code \in DOMAIN replay /\ now < replay[code].expires
<1>1. th[t].pc = "replay" /\ "replayed" \in Statuses /\ "invalid_grant" \in Statuses
  BY Basics DEF ReadReplay
<1>2. CASE hit
  <2>1. replay[code].body \in Bodies \cup {NoBody}
    BY <1>2 DEF TEInv, TETypeOK
  <2>2. th' = [th EXCEPT ![t] = Answered(th[t], "replayed", replay[code].body)]
    BY <1>2 DEF ReadReplay
  <2> QED
    BY <1>1, <1>2, <2>1, <2>2, Answers
<1>3. CASE ~hit
  <2>1. th' = [th EXCEPT ![t] = Answered(th[t], "invalid_grant", NoBody)]
    BY <1>3 DEF ReadReplay
  <2> QED
    BY <1>1, <1>3, <2>1, Answers
<1> QED
  BY <1>2, <1>3

LEMMA LookupUserMoves ==
    ASSUME TEInv, NEW t \in Threads, LookupUser(t)
    PROVE  LET s == th[t]
           IN  /\ s.pc = "lookup"
               /\ \/ After(t, MintedPc(s.grant, "cache"), s.req, s.grant,
                           MintedBody(t, s.grant), "none", s.seen)
                  \/ After(t, "done", s.req, s.grant, NoBody, "server_error",
                           s.seen)
<1>1. /\ th[t].pc = "lookup" /\ th[t].status = "none" /\ th[t].stamp <= now
      /\ "server_error" \in Statuses
  BY Basics DEF LookupUser, RequestInPlace
<1>2. CASE th[t].grant.user \in users
  <2> DEFINE s == Minted(th[t], t, "cache")
  <2>1. th \in [Threads -> ThreadStates] /\ th[t] \in ThreadStates /\ now \in Nat
    BY Basics
  <2>2. /\ s \in ThreadStates /\ s.pc = MintedPc(th[t].grant, "cache")
        /\ s.body = MintedBody(t, th[t].grant)
        /\ s.status = IF s.pc = "done" THEN "ok" ELSE th[t].status
        /\ s.req = th[t].req /\ s.grant = th[t].grant
        /\ s.stamp = th[t].stamp /\ s.seen = th[t].seen
    BY <2>1, MintedFields
  <2>3. th' = [th EXCEPT ![t] = s]
    BY <1>2 DEF LookupUser
  <2> HIDE DEF s
  <2>4. s.pc # "done"
    BY <2>2 DEF MintedPc
  <2>5. After(t, s.pc, s.req, s.grant, s.body, s.status, s.seen)
    BY <1>1, <2>1, <2>2, <2>3, <2>4, Writes
  <2> QED
    BY <1>1, <2>2, <2>4, <2>5
<1>3. CASE th[t].grant.user \notin users
  <2>1. th' = [th EXCEPT ![t] = Answered(th[t], "server_error", NoBody)]
    BY <1>3 DEF LookupUser
  <2> QED
    BY <1>1, <2>1, Answers
<1> QED
  BY <1>2, <1>3

LEMMA ReadClockMoves ==
    ASSUME TEInv, NEW t \in Threads, ReadClock(t)
    PROVE  LET s == th[t]
           IN  /\ s.pc = "stamp"
               /\ After(t, "save", s.req, s.grant, s.body, "none", s.seen)
<1> DEFINE s == [th[t] EXCEPT !.pc = "save", !.stamp = now]
<1>1. /\ th \in [Threads -> ThreadStates] /\ th[t] \in ThreadStates /\ now \in Nat
      /\ th[t].pc = "stamp" /\ th[t].status = "none"
  BY Basics DEF ReadClock, RequestInPlace
<1>2. th' = [th EXCEPT ![t] = s]
  BY <1>1 DEF ReadClock
<1>3. /\ s \in ThreadStates /\ s.pc = "save" /\ s.req = th[t].req
      /\ s.grant = th[t].grant /\ s.body = th[t].body
      /\ s.status = th[t].status /\ s.seen = th[t].seen /\ s.stamp = now
  BY <1>1 DEF ThreadStates, PCs
<1> HIDE DEF s
<1>4. s.stamp <= now
  BY <1>1, <1>3
<1>5. After(t, s.pc, s.req, s.grant, s.body, s.status, s.seen)
  BY <1>1, <1>2, <1>3, <1>4, Writes
<1> QED
  BY <1>1, <1>3, <1>5

LEMMA CacheResponseMoves ==
    ASSUME TEInv, NEW t \in Threads, CacheResponse(t)
    PROVE  LET s == th[t]
           IN  /\ s.pc = "cache"
               /\ After(t, "done", s.req, s.grant, s.body, "ok", s.seen)
<1>1. /\ th[t].pc = "cache" /\ "ok" \in Statuses
      /\ th[t].body \in Bodies \cup {NoBody}
  BY Basics DEF CacheResponse, RequestInPlace
<1>2. th' = [th EXCEPT ![t] = Answered(th[t], "ok", th[t].body)]
  BY DEF CacheResponse
<1> QED
  BY <1>1, <1>2, Answers

LEMMA SaveRefreshMoves ==
    ASSUME TEInv, NEW t \in Threads, SaveRefresh(t)
    PROVE  /\ th[t].pc = "save"
           /\ \E tok \in RefreshTokens \ used :
                LET s == th[t]
                    body == [s.body EXCEPT !.refresh = tok]
                IN  /\ SaveRefreshToken(tok, s.grant, s.stamp)
                    /\ body \in Bodies /\ body.access = t
                    /\ \/ /\ IsKind(t, "authorization_code")
                          /\ After(t, "cache", s.req, s.grant, body, "none",
                                   s.seen)
                       \/ /\ ~IsKind(t, "authorization_code")
                          /\ After(t, "done", s.req, s.grant, body, "ok",
                                   s.seen)
<1>1. /\ th \in [Threads -> ThreadStates] /\ th[t] \in ThreadStates
      /\ th[t].pc = "save" /\ th[t].body \in Bodies /\ MintedBy(t)
      /\ th[t].status = "none" /\ th[t].stamp <= now /\ "ok" \in Statuses
  BY Basics DEF SaveRefresh, RequestInPlace
<1>2. PICK tok \in RefreshTokens \ used :
         LET body == [th[t].body EXCEPT !.refresh = tok]
         IN  /\ SaveRefreshToken(tok, th[t].grant, th[t].stamp)
             /\ th' = [th EXCEPT ![t] =
                         IF IsKind(t, "authorization_code")
                         THEN [th[t] EXCEPT !.pc = "cache", !.body = body]
                         ELSE Answered(th[t], "ok", body)]
  BY DEF SaveRefresh
<1> DEFINE body == [th[t].body EXCEPT !.refresh = tok]
<1>3. body \in Bodies /\ body.access = t
  BY <1>1 DEF Bodies, MintedBy
<1>4. CASE IsKind(t, "authorization_code")
  <2> DEFINE s == [th[t] EXCEPT !.pc = "cache", !.body = body]
  <2>1. th' = [th EXCEPT ![t] = s]
    BY <1>2, <1>4
  <2> HIDE DEF body
  <2>2. /\ s \in ThreadStates /\ s.pc = "cache" /\ s.req = th[t].req
        /\ s.grant = th[t].grant /\ s.body = body
        /\ s.status = "none" /\ s.seen = th[t].seen
        /\ s.stamp = th[t].stamp
    BY <1>1, <1>3 DEF ThreadStates, PCs
  <2> HIDE DEF s
  <2>3. After(t, s.pc, s.req, s.grant, s.body, s.status, s.seen)
    BY <1>1, <2>1, <2>2, Writes
  <2>4. After(t, "cache", th[t].req, th[t].grant, body, "none", th[t].seen)
    BY <2>2, <2>3
  <2> QED
    BY <1>1, <1>2, <1>3, <1>4, <2>4 DEF body
<1>5. CASE ~IsKind(t, "authorization_code")
  <2>1. th' = [th EXCEPT ![t] = Answered(th[t], "ok", body)]
    BY <1>2, <1>5
  <2> HIDE DEF body
  <2>2. After(t, "done", th[t].req, th[t].grant, body, "ok", th[t].seen)
    BY <1>1, <1>3, <2>1, Answers
  <2> QED
    BY <1>1, <1>2, <1>3, <1>5, <2>2 DEF body
<1> QED
  BY <1>4, <1>5

(* Where a refresh or a password grant goes: refused, or with its tokens   *)
(* signed.                                                                 *)
Refused(t, r) == After(t, "done", r, NoGrant, NoBody, "invalid_grant", "new")
MintedAtOnce(t, r, g) ==
    After(t, MintedPc(g, "done"), r, g, MintedBody(t, g),
          IF MintedPc(g, "done") = "done" THEN "ok" ELSE "none", "new")

LEMMA Starts ==
    ASSUME TEInv, NEW t \in Threads, NEW r \in Requests
    PROVE  /\ th' = [th EXCEPT ![t] = Answered(Started(r, "done", NoGrant),
                                              "invalid_grant", NoBody)]
                => Refused(t, r)
           /\ \A g \in RefreshGrants :
                th' = [th EXCEPT ![t] = Minted(Started(r, "stamp", g), t, "done")]
                => MintedAtOnce(t, r, g)
<1>0. /\ th \in [Threads -> ThreadStates] /\ now \in Nat
      /\ "invalid_grant" \in Statuses /\ "done" \in PCs /\ "stamp" \in PCs
      /\ NoBody \in Bodies \cup {NoBody}
  BY Basics
<1>1. ASSUME th' = [th EXCEPT ![t] = Answered(Started(r, "done", NoGrant),
                                              "invalid_grant", NoBody)]
      PROVE  Refused(t, r)
  <2> DEFINE b == Started(r, "done", NoGrant)
             s == Answered(b, "invalid_grant", NoBody)
  <2>1. /\ b \in ThreadStates /\ b.req = r /\ b.grant = NoGrant
        /\ b.stamp = 0 /\ b.seen = "new"
    BY <1>0, StartedFields
  <2>2. th' = [th EXCEPT ![t] = s]
    BY <1>1
  <2> HIDE DEF b
  <2>3. /\ s \in ThreadStates /\ s.pc = "done" /\ s.req = r
        /\ s.grant = NoGrant /\ s.stamp = 0 /\ s.body = NoBody
        /\ s.status = "invalid_grant" /\ s.seen = "new" /\ s.at = now
    BY <1>0, <2>1, AnsweredFields
  <2> HIDE DEF s
  <2>4. s.stamp <= now
    BY <1>0, <2>3
  <2>5. After(t, s.pc, s.req, s.grant, s.body, s.status, s.seen)
    BY <1>0, <2>2, <2>3, <2>4, Writes
  <2> QED
    BY <2>3, <2>5 DEF Refused
<1>2. ASSUME NEW g \in RefreshGrants,
             th' = [th EXCEPT ![t] = Minted(Started(r, "stamp", g), t, "done")]
      PROVE  MintedAtOnce(t, r, g)
  <2> DEFINE b == Started(r, "stamp", g)
             s == Minted(b, t, "done")
  <2>1. /\ b \in ThreadStates /\ b.req = r /\ b.grant = g
        /\ b.stamp = 0 /\ b.seen = "new" /\ b.status = "none"
    BY <1>0, StartedFields
  <2>2. th' = [th EXCEPT ![t] = s]
    BY <1>2
  <2> HIDE DEF b
  <2>3. /\ s \in ThreadStates /\ s.pc = MintedPc(g, "done")
        /\ s.body = MintedBody(t, g)
        /\ s.status = IF s.pc = "done" THEN "ok" ELSE "none"
        /\ s.pc = "done" => s.at = now
        /\ s.req = r /\ s.grant = g /\ s.stamp = 0 /\ s.seen = "new"
    BY <1>0, <2>1, MintedFields
  <2> HIDE DEF s
  <2>4. s.stamp <= now
    BY <1>0, <2>3
  <2>5. After(t, s.pc, s.req, s.grant, s.body, s.status, s.seen)
    BY <1>0, <2>2, <2>3, <2>4, Writes
  <2> QED
    BY <2>3, <2>5 DEF MintedAtOnce
<1> QED
  BY <1>1, <1>2

LEMMA RefreshExchangeMoves ==
    ASSUME TEInv, NEW t \in Threads, NEW r \in Requests, RefreshExchange(t, r)
    PROVE  /\ th[t] = Idle /\ r.kind = "refresh_token"
           /\ \/ Refused(t, r)
              \/ /\ Redeemable(refresh, r.token)
                 /\ MintedAtOnce(t, r, refresh[r.token].grant)
<1> DEFINE rg == refresh[r.token].grant
           good == /\ Redeemable(refresh, r.token)
                   /\ r.client # NoClient => rg.client = r.client
<1>1. th[t] = Idle /\ r.kind = "refresh_token"
  BY Basics DEF RefreshExchange, RequestInPlace
<1>2. CASE good
  <2>1. rg \in RefreshGrants
    BY <1>2, Basics DEF Redeemable
  <2>2. th' = [th EXCEPT ![t] = Minted(Started(r, "stamp", rg), t, "done")]
    BY <1>2 DEF RefreshExchange
  <2> QED
    BY <1>1, <1>2, <2>1, <2>2, Starts
<1>3. CASE ~good
  <2>1. th' = [th EXCEPT ![t] = Answered(Started(r, "done", NoGrant),
                                         "invalid_grant", NoBody)]
    BY <1>3 DEF RefreshExchange
  <2> QED
    BY <1>1, <2>1, Starts
<1> QED
  BY <1>2, <1>3

LEMMA PasswordGrantMoves ==
    ASSUME TEInv, NEW t \in Threads, NEW r \in Requests, PasswordGrant(t, r)
    PROVE  /\ th[t] = Idle /\ r.kind = "password"
           /\ \/ Refused(t, r) /\ UNCHANGED origin
              \/ \E g \in RefreshGrants :
                   /\ g.sid \in Sids \ DOMAIN origin
                   /\ origin' = Put(origin, g.sid, g)
                   /\ MintedAtOnce(t, r, g)
<1>1. th[t] = Idle /\ r.kind = "password"
  BY Basics DEF PasswordGrant, RequestInPlace
<1>2. CASE r.user \in users /\ r.correct
  <2>1. PICK sid \in Sids \ DOMAIN origin :
          LET rg == [user |-> r.user, client |-> Effective(r.client),
                     scope |-> r.scope, sid |-> sid]
          IN  /\ th' = [th EXCEPT ![t] = Minted(Started(r, "stamp", rg), t, "done")]
              /\ origin' = Put(origin, sid, rg)
    BY <1>2 DEF PasswordGrant
  <2> DEFINE g == [user |-> r.user, client |-> Effective(r.client),
                   scope |-> r.scope, sid |-> sid]
  <2>2. r.user \in Users /\ Effective(r.client) \in ClientIDs
    BY <1>2, RequestAssumption, ShapeAssumption
       DEF Effective, ClientIDs, TEInv, TETypeOK
  <2>3. g \in RefreshGrants /\ g.sid = sid
    BY <1>1, <2>2, RequestAssumption, ShapeAssumption
  <2> HIDE DEF g
  <2>4. MintedAtOnce(t, r, g)
    BY <2>1, <2>3, Starts DEF g
  <2> QED
    BY <1>1, <2>1, <2>3, <2>4 DEF g
<1>3. CASE ~(r.user \in users /\ r.correct)
  <2>1. /\ th' = [th EXCEPT ![t] = Answered(Started(r, "done", NoGrant),
                                            "invalid_grant", NoBody)]
        /\ UNCHANGED origin
    BY <1>3 DEF PasswordGrant
  <2> QED
    BY <1>1, <2>1, Starts
<1> QED
  BY <1>2, <1>3

(* A restart answers nobody and keeps what the answered were told.         *)
LEMMA RestartMoves ==
    ASSUME TEInv, Restart
    PROVE  /\ th' \in [Threads -> ThreadStates]
           /\ \A t \in Threads :
                \/ th[t].pc \in {"idle", "done"} /\ th'[t] = th[t]
                \/ /\ th[t].pc \notin {"idle", "done"}
                   /\ th'[t].pc = "done" /\ th'[t].status = "lost"
                   /\ th'[t].req = th[t].req /\ th'[t].grant = th[t].grant
                   /\ th'[t].body = th[t].body /\ th'[t].seen = th[t].seen
                   /\ th'[t].stamp = th[t].stamp
<1>0. "lost" \in Statuses /\ now \in Nat
  BY Basics
<1>1. ASSUME NEW t \in Threads, th[t].pc \in {"idle", "done"}
      PROVE  th'[t] = th[t]
  BY <1>1 DEF Restart
<1>2. ASSUME NEW t \in Threads, th[t].pc \notin {"idle", "done"}
      PROVE  /\ th'[t] \in ThreadStates
             /\ th'[t].pc = "done" /\ th'[t].status = "lost"
             /\ th'[t].req = th[t].req /\ th'[t].grant = th[t].grant
             /\ th'[t].body = th[t].body /\ th'[t].seen = th[t].seen
             /\ th'[t].stamp = th[t].stamp
  <2>1. th'[t] = Answered(th[t], "lost", th[t].body)
    BY <1>2 DEF Restart
  <2>2. th[t] \in ThreadStates /\ th[t].body \in Bodies \cup {NoBody}
    BY Basics DEF ThreadStates
  <2> QED
    BY <1>0, <2>1, <2>2, AnsweredFields
<1>3. th' = [t \in Threads |-> th'[t]]
  BY DEF Restart
<1>4. \A t \in Threads : th'[t] \in ThreadStates
  BY <1>1, <1>2, Basics
<1> QED
  BY <1>1, <1>2, <1>3, <1>4

-----------------------------------------------------------------------------
(* Every request stays in place.                                           *)

(* RequestInPlace for the fields a step gives to request t.                *)
GoodFields(t, pc, req, grant, body, status, seen) ==
    /\ pc # "idle" /\ req \in Requests
    /\ pc \in {"replay", "lookup", "cache"} => req.kind = "authorization_code"
    /\ pc \in {"replay", "lookup"} => body = NoBody
    /\ pc \in {"lookup", "stamp", "save"} => grant \in RefreshGrants
    /\ pc \in {"stamp", "save"} => "offline_access" \in grant.scope
    /\ pc \in {"stamp", "save", "cache"} => body \in Bodies /\ body.access = t
    /\ pc # "done" => status = "none"
    /\ status = "ok" => body \in Bodies /\ body.access = t
    /\ status = "replayed" => req.kind = "authorization_code"
    /\ seen = "answered" => req.kind = "authorization_code"
    /\ body.access = t => grant # NoGrant
    /\ req.kind = "authorization_code" /\ grant # NoGrant => req.code \in spent'

LEMMA InPlaceFrame ==
    ASSUME TEInv, [TENext]_teVars, NEW t \in Threads, th'[t] = th[t]
    PROVE  RequestInPlace(t)'
<1>1. spent \subseteq spent' /\ now <= now' /\ now' \in Nat
  BY StoreKept DEF GSTypeOK
<1>2. RequestInPlace(t) /\ now \in Nat /\ th[t].stamp \in Nat
  BY Basics DEF ThreadStates
<1>3. th'[t].stamp <= now'
  BY <1>1, <1>2 DEF RequestInPlace
<1> QED
  BY <1>1, <1>2, <1>3 DEF RequestInPlace, InHand, MintedBy, IsKind

LEMMA InPlaceAfter ==
    ASSUME TEInv, [TENext]_teVars, NEW t \in Threads,
           NEW pc, NEW req, NEW grant, NEW body, NEW status, NEW seen,
           After(t, pc, req, grant, body, status, seen),
           GoodFields(t, pc, req, grant, body, status, seen)
    PROVE  th' \in [Threads -> ThreadStates] /\ RequestsInPlace'
<1>1. now <= now' /\ now' \in Nat /\ now \in Nat /\ th'[t].stamp \in Nat
  BY StoreKept, Basics DEF GSTypeOK, After, ThreadStates
<1>2. th'[t].stamp <= now'
  BY <1>1 DEF After
<1>3. RequestInPlace(t)'
  BY <1>2, RequestAssumption DEF After, GoodFields, RequestInPlace, InHand, MintedBy, IsKind
<1>4. \A o \in Threads \ {t} : RequestInPlace(o)'
  BY InPlaceFrame DEF After
<1> QED
  BY <1>3, <1>4 DEF After, RequestsInPlace

(* NoBody names no request, and a signed body names the one that signs.    *)
LEMMA BodyFacts ==
    ASSUME NEW t \in Threads, NEW g
    PROVE  /\ NoBody.access # t
           /\ MintedBody(t, g) \in Bodies /\ MintedBody(t, g).access = t
BY RequestAssumption DEF NoBody, MintedBody, Bodies

LEMMA InPlaceStep ==
    ASSUME TEInv, [TENext]_teVars
    PROVE  th' \in [Threads -> ThreadStates] /\ RequestsInPlace'
<1> DEFINE Goal == th' \in [Threads -> ThreadStates] /\ RequestsInPlace'
<1>1. ASSUME NEW t \in Threads, NEW r \in Requests, ExchangeCode(t, r)
      PROVE  Goal
  <2>1. CASE After(t, "replay", r, NoGrant, NoBody, "none", Seen(r.code))
    <3> DEFINE seen == Seen(r.code)
    <3>1. GoodFields(t, "replay", r, NoGrant, NoBody, "none", seen)
      BY <1>1, BodyFacts, ExchangeCodeMoves DEF GoodFields
    <3> HIDE DEF seen
    <3> QED
      BY <2>1, <3>1, InPlaceAfter DEF seen
  <2>2. CASE After(t, "done", r, NoGrant, NoBody, "invalid_grant", "new")
    <3>1. GoodFields(t, "done", r, NoGrant, NoBody, "invalid_grant", "new")
      BY BodyFacts DEF GoodFields
    <3> QED
      BY <2>2, <3>1, InPlaceAfter
  <2>3. CASE /\ Redeemable(codes, r.code)
             /\ After(t, "lookup", r, Granted(r), NoBody, "none", "new")
    <3>1. Granted(r) \in RefreshGrants
      BY <2>3, GrantedType DEF Redeemable
    <3>2. r.code \in spent'
      BY <1>1, <2>3 DEF ExchangeCode, ConsumeCode
    <3>3. GoodFields(t, "lookup", r, Granted(r), NoBody, "none", "new")
      BY <1>1, <3>1, <3>2, BodyFacts, ExchangeCodeMoves DEF GoodFields
    <3> QED
      BY <2>3, <3>3, InPlaceAfter
  <2> QED
    BY <1>1, <2>1, <2>2, <2>3, ExchangeCodeMoves
<1>2. ASSUME NEW t \in Threads, NEW r \in Requests, Refused(t, r)
      PROVE  Goal
  <2>1. GoodFields(t, "done", r, NoGrant, NoBody, "invalid_grant", "new")
    BY BodyFacts DEF GoodFields
  <2> QED
    BY <1>2, <2>1, InPlaceAfter DEF Refused
<1>3. ASSUME NEW t \in Threads, NEW r \in Requests,
             r.kind # "authorization_code",
             NEW g \in RefreshGrants, MintedAtOnce(t, r, g)
      PROVE  Goal
  <2> DEFINE pc == MintedPc(g, "done")
             status == IF pc = "done" THEN "ok" ELSE "none"
             body == MintedBody(t, g)
  <2>0. g # NoGrant
    BY ShapeAssumption
  <2>1. /\ body \in Bodies /\ body.access = t
        /\ pc \in {"stamp", "done"}
        /\ pc = "stamp" => "offline_access" \in g.scope
    BY BodyFacts DEF MintedPc
  <2>2. After(t, pc, r, g, body, status, "new")
    BY <1>3 DEF MintedAtOnce
  <2> HIDE DEF body, pc
  <2>4. /\ status \in {"ok", "none"}
        /\ status = "ok" <=> pc = "done"
    BY <2>1
  <2> HIDE DEF status
  <2>3. GoodFields(t, pc, r, g, body, status, "new")
    BY <1>3, <2>0, <2>1, <2>4 DEF GoodFields
  <2> QED
    BY <2>2, <2>3, InPlaceAfter
<1>4. ASSUME NEW t \in Threads, ReadReplay(t) PROVE Goal
  <2> DEFINE req == th[t].req
             cached == replay[req.code].body
             grant == th[t].grant
             seen == th[t].seen
  <2>1. /\ th[t].pc = "replay" /\ RequestInPlace(t)
        /\ CacheExplained /\ spent \subseteq spent'
    BY <1>4, ReadReplayMoves, Basics, StoreKept DEF TEInv
  <2>2. /\ req \in Requests /\ req.kind = "authorization_code"
        /\ grant # NoGrant => req.code \in spent'
    BY <2>1, RequestAssumption DEF RequestInPlace, IsKind
  <2>3. CASE /\ req.code \in DOMAIN replay
             /\ After(t, "done", req, grant, cached, "replayed", seen)
    <3>1. cached.access # t
      <4>1. PICK o \in Threads : /\ th[o].status = "ok"
                                 /\ cached = th[o].body
        BY <2>1, <2>3 DEF CacheExplained
      <4>2. RequestInPlace(o) /\ o # t
        BY <2>1, <4>1, Basics DEF RequestInPlace
      <4> QED
        BY <4>1, <4>2 DEF RequestInPlace, MintedBy
    <3> HIDE DEF cached, req, grant, seen
    <3>2. GoodFields(t, "done", req, grant, cached, "replayed", seen)
      BY <2>2, <3>1 DEF GoodFields
    <3> QED
      BY <2>3, <3>2, InPlaceAfter
  <2>4. CASE After(t, "done", req, grant, NoBody, "invalid_grant", seen)
    <3> HIDE DEF req, grant, seen
    <3>1. GoodFields(t, "done", req, grant, NoBody, "invalid_grant", seen)
      BY <2>2, BodyFacts DEF GoodFields
    <3> QED
      BY <2>4, <3>1, InPlaceAfter
  <2> QED
    BY <1>4, <2>3, <2>4, ReadReplayMoves
<1>5. ASSUME NEW t \in Threads, InHand(t) \/ th[t].pc = "cache",
             NEW pc \in {"stamp", "save", "cache", "done"}, NEW body,
             NEW status \in {"none", "ok", "server_error"},
             After(t, pc, th[t].req, th[t].grant, body, status, th[t].seen),
             pc = "cache" => IsKind(t, "authorization_code"),
             pc # "done" => status = "none",
             pc \in {"stamp", "save"} => "offline_access" \in th[t].grant.scope,
             status # "server_error" => body \in Bodies /\ body.access = t
      PROVE  Goal
  <2> DEFINE req == th[t].req
             grant == th[t].grant
             seen == th[t].seen
  <2>1. RequestInPlace(t) /\ spent \subseteq spent'
    BY Basics, StoreKept
  <2>0. grant \in RefreshGrants \cup {NoGrant}
    BY Basics DEF ThreadStates
  <2>2. /\ req \in Requests /\ req # NoRequest
        /\ grant \in RefreshGrants /\ grant # NoGrant
    BY <1>5, <2>0, <2>1, RequestAssumption, ShapeAssumption
       DEF RequestInPlace, InHand
  <2>3. /\ seen = "answered" => req.kind = "authorization_code"
        /\ req.kind = "authorization_code" => req.code \in spent'
    BY <2>1, <2>2 DEF RequestInPlace, IsKind
  <2> HIDE DEF req, grant, seen
  <2>4. GoodFields(t, pc, req, grant, body, status, seen)
    BY <1>5, <2>2, <2>3 DEF GoodFields, IsKind, req, grant
  <2> QED
    BY <1>5, <2>4, InPlaceAfter DEF req, grant, seen
<1>6. ASSUME NEW t \in Threads, LookupUser(t) PROVE Goal
  <2> DEFINE grant == th[t].grant
             body == MintedBody(t, grant)
             pc == MintedPc(grant, "cache")
  <2>1. InHand(t) /\ RequestInPlace(t) /\ IsKind(t, "authorization_code")
    BY <1>6, LookupUserMoves, Basics, RequestAssumption
       DEF InHand, RequestInPlace, IsKind
  <2>2. CASE After(t, pc, th[t].req, grant, body, "none", th[t].seen)
    <3>1. /\ pc \in {"stamp", "cache"}
          /\ pc = "stamp" => "offline_access" \in grant.scope
          /\ body \in Bodies /\ body.access = t
      BY BodyFacts DEF MintedPc
    <3> HIDE DEF pc, body
    <3> QED
      BY <1>5, <2>1, <2>2, <3>1
  <2>3. CASE After(t, "done", th[t].req, grant, NoBody, "server_error",
                   th[t].seen)
    BY <1>5, <2>1, <2>3
  <2> QED
    BY <1>6, <2>2, <2>3, LookupUserMoves
<1>7. ASSUME NEW t \in Threads, ReadClock(t) PROVE Goal
  <2>1. th[t].pc = "stamp" /\ RequestInPlace(t)
    BY <1>7, ReadClockMoves, Basics
  <2>2. After(t, "save", th[t].req, th[t].grant, th[t].body, "none", th[t].seen)
    BY <1>7, ReadClockMoves
  <2>3. /\ InHand(t) /\ "offline_access" \in th[t].grant.scope
        /\ th[t].body \in Bodies /\ th[t].body.access = t
    BY <2>1 DEF RequestInPlace, InHand, MintedBy
  <2> QED
    BY <1>5, <2>2, <2>3
<1>8. ASSUME NEW t \in Threads, SaveRefresh(t) PROVE Goal
  <2>1. PICK tok \in RefreshTokens \ used :
          LET body == [th[t].body EXCEPT !.refresh = tok]
          IN  /\ body \in Bodies /\ body.access = t
              /\ \/ /\ IsKind(t, "authorization_code")
                    /\ After(t, "cache", th[t].req, th[t].grant, body, "none",
                             th[t].seen)
                 \/ After(t, "done", th[t].req, th[t].grant, body, "ok",
                          th[t].seen)
    BY <1>8, SaveRefreshMoves
  <2>2. InHand(t)
    BY <1>8 DEF SaveRefresh, InHand
  <2> QED
    BY <1>5, <2>1, <2>2
<1>9. ASSUME NEW t \in Threads, CacheResponse(t) PROVE Goal
  <2>1. th[t].pc = "cache" /\ RequestInPlace(t)
    BY <1>9, CacheResponseMoves, Basics
  <2>2. After(t, "done", th[t].req, th[t].grant, th[t].body, "ok", th[t].seen)
    BY <1>9, CacheResponseMoves
  <2>3. th[t].body \in Bodies /\ th[t].body.access = t
    BY <2>1 DEF RequestInPlace, MintedBy
  <2> QED
    BY <1>5, <2>1, <2>2, <2>3
<1>10. ASSUME Restart PROVE Goal
  <2>1. th' \in [Threads -> ThreadStates]
    BY <1>10, RestartMoves
  <2>2. ASSUME NEW t \in Threads PROVE RequestInPlace(t)'
    <3>1. CASE th'[t] = th[t]
      BY <3>1, InPlaceFrame
    <3>2. CASE /\ th[t].pc \notin {"idle", "done"}
               /\ th'[t].pc = "done" /\ th'[t].status = "lost"
               /\ th'[t].req = th[t].req /\ th'[t].grant = th[t].grant
               /\ th'[t].body = th[t].body /\ th'[t].seen = th[t].seen
               /\ th'[t].stamp = th[t].stamp
      <4>1. /\ spent \subseteq spent' /\ RequestInPlace(t)
            /\ now' = now
        BY <1>10, StoreKept, Basics DEF Restart, StoreRestart
      <4> QED
        BY <3>2, <4>1 DEF RequestInPlace, InHand, MintedBy, IsKind
    <3> QED
      BY <1>10, <3>1, <3>2, RestartMoves
  <2> QED
    BY <2>1, <2>2 DEF RequestsInPlace
<1>11. ASSUME UNCHANGED th PROVE Goal
  BY <1>11, InPlaceFrame, Basics DEF RequestsInPlace
<1>12. ASSUME NEW t \in Threads, NEW r \in Requests, RefreshExchange(t, r)
       PROVE  Goal
  <2>1. Redeemable(refresh, r.token) => refresh[r.token].grant \in RefreshGrants
    BY Basics DEF Redeemable
  <2> QED
    BY <1>2, <1>3, <1>12, <2>1, RefreshExchangeMoves
<1>13. ASSUME NEW t \in Threads, NEW r \in Requests, PasswordGrant(t, r)
       PROVE  Goal
  BY <1>2, <1>3, <1>13, PasswordGrantMoves
<1> HIDE DEF Goal
<1>14. Goal
  BY <1>1, <1>4, <1>6, <1>7, <1>8, <1>9, <1>10, <1>11, <1>12, <1>13
     DEF TENext, Begin, Step, Revoke, IssueCode, DeleteUser, ClockTick, teVars
<1> QED
  BY <1>14 DEF Goal

-----------------------------------------------------------------------------
(* Codes are exchanged once, and the cache holds what was answered.        *)

(* A step of request t that is neither the start of a code exchange nor an *)
(* access to the cache: t keeps its request if it had one, and answers no  *)
(* exchange of a code.                                                     *)
Elsewhere(t) ==
    /\ th[t].pc \notin {"done", "replay"}
    /\ \A o \in Threads \ {t} : th'[o] = th[o]
    /\ th'[t].status # "replayed"
    /\ \/ /\ th'[t].req = th[t].req
          /\ th'[t].grant = th[t].grant
          /\ th'[t].seen = th[t].seen
          /\ IsKind(t, "authorization_code") =>
               th'[t].status \notin {"ok", "invalid_grant"}
       \/ /\ th'[t].req.kind # "authorization_code"
          /\ th'[t].seen = "new"

LEMMA WhoMoves ==
    ASSUME TEInv, [TENext]_teVars
    PROVE  \/ Restart
           \/ UNCHANGED <<th, replay, restarts>>
           \/ \E t \in Threads : CacheResponse(t)
           \/ /\ UNCHANGED <<replay, restarts>> /\ now' = now
              /\ \E t \in Threads :
                   \/ \E r \in Requests : ExchangeCode(t, r)
                   \/ ReadReplay(t)
                   \/ Elsewhere(t)
<1>1. ASSUME NEW t \in Threads, NEW r \in Requests, RefreshExchange(t, r)
      PROVE  Elsewhere(t) /\ UNCHANGED <<replay, restarts>> /\ now' = now
  <2>1. /\ th[t] = Idle /\ r.kind = "refresh_token"
        /\ \/ Refused(t, r)
           \/ MintedAtOnce(t, r, refresh[r.token].grant)
    BY <1>1, RefreshExchangeMoves
  <2>2. th[t].pc = "idle"
    BY <1>1 DEF RefreshExchange
  <2>3. UNCHANGED <<replay, restarts>> /\ now' = now
    BY <1>1 DEF RefreshExchange, ConsumeRefreshToken
  <2> QED
    BY <2>1, <2>2, <2>3 DEF Elsewhere, Refused, MintedAtOnce, After
<1>2. ASSUME NEW t \in Threads, NEW r \in Requests, PasswordGrant(t, r)
      PROVE  Elsewhere(t) /\ UNCHANGED <<replay, restarts>> /\ now' = now
  <2>1. /\ th[t] = Idle /\ r.kind = "password"
        /\ \/ Refused(t, r)
           \/ \E g \in RefreshGrants : MintedAtOnce(t, r, g)
    BY <1>2, PasswordGrantMoves
  <2>2. th[t].pc = "idle"
    BY <1>2 DEF PasswordGrant
  <2>3. UNCHANGED <<replay, restarts>> /\ now' = now
    BY <1>2 DEF PasswordGrant, gsVars
  <2> QED
    BY <2>1, <2>2, <2>3 DEF Elsewhere, Refused, MintedAtOnce, After
<1>3. ASSUME NEW t \in Threads, LookupUser(t)
      PROVE  Elsewhere(t) /\ UNCHANGED <<replay, restarts>> /\ now' = now
  <2>1. UNCHANGED <<replay, restarts>> /\ now' = now
    BY <1>3 DEF LookupUser, gsVars
  <2> QED
    BY <1>3, <2>1, LookupUserMoves DEF Elsewhere, After
<1>4. ASSUME NEW t \in Threads, ReadClock(t)
      PROVE  Elsewhere(t) /\ UNCHANGED <<replay, restarts>> /\ now' = now
  <2>1. UNCHANGED <<replay, restarts>> /\ now' = now
    BY <1>4 DEF ReadClock, gsVars
  <2> QED
    BY <1>4, <2>1, ReadClockMoves DEF Elsewhere, After
<1>5. ASSUME NEW t \in Threads, SaveRefresh(t)
      PROVE  Elsewhere(t) /\ UNCHANGED <<replay, restarts>> /\ now' = now
  <2>1. UNCHANGED <<replay, restarts>> /\ now' = now
    BY <1>5 DEF SaveRefresh, SaveRefreshToken
  <2> QED
    BY <1>5, <2>1, SaveRefreshMoves DEF Elsewhere, After
<1>6. ASSUME NEW t \in Threads, ReadReplay(t) PROVE UNCHANGED <<replay, restarts>> /\ now' = now
  BY <1>6 DEF ReadReplay, gsVars
<1>7. ASSUME NEW t \in Threads, NEW r \in Requests, ExchangeCode(t, r)
      PROVE  UNCHANGED <<replay, restarts>> /\ now' = now
  BY <1>7 DEF ExchangeCode, ConsumeCode
<1> QED
  BY <1>1, <1>2, <1>3, <1>4, <1>5, <1>6, <1>7
     DEF TENext, Begin, Step, Revoke, IssueCode, DeleteUser, ClockTick, teVars

(* An answered request never changes again.                                *)
LEMMA DoneIsFinal ==
    ASSUME TEInv, [TENext]_teVars, NEW t \in Threads, th[t].pc = "done"
    PROVE  th'[t] = th[t]
<1>1. CASE Restart
  BY <1>1, RestartMoves
<1>2. ASSUME NEW o \in Threads, CacheResponse(o) PROVE th'[t] = th[t]
  BY <1>2, CacheResponseMoves DEF After
<1>3. ASSUME NEW o \in Threads, NEW r \in Requests, ExchangeCode(o, r)
      PROVE  th'[t] = th[t]
  <2>1. th[o].pc = "idle"
    BY <1>3 DEF ExchangeCode
  <2> QED
    BY <1>3, <2>1, ExchangeCodeMoves DEF After
<1>4. ASSUME NEW o \in Threads, ReadReplay(o) PROVE th'[t] = th[t]
  BY <1>4, ReadReplayMoves DEF After
<1>5. ASSUME NEW o \in Threads, Elsewhere(o) PROVE th'[t] = th[t]
  BY <1>5 DEF Elsewhere
<1> QED
  BY <1>1, <1>2, <1>3, <1>4, <1>5, WhoMoves

(* A request that holds the contents of a code held them before the step,  *)
(* or has just taken them from a code that nobody had taken.               *)
LEMMA Takers ==
    ASSUME TEInv, [TENext]_teVars, NEW t \in Threads,
           IsKind(t, "authorization_code")', th'[t].grant # NoGrant
    PROVE  \/ /\ IsKind(t, "authorization_code") /\ th[t].grant # NoGrant
              /\ th[t].req = th'[t].req
           \/ /\ th'[t].req.code \notin spent
              /\ \A o \in Threads \ {t} : th'[o] = th[o]
<1> USE DEF IsKind
<1>1. CASE Restart
  BY <1>1, RestartMoves
<1>2. ASSUME NEW o \in Threads, CacheResponse(o)
      PROVE  th'[t].req = th[t].req /\ th'[t].grant = th[t].grant
  BY <1>2, CacheResponseMoves DEF After
<1>3. ASSUME NEW r \in Requests, ExchangeCode(t, r)
      PROVE  /\ th'[t].req.code \notin spent
             /\ \A o \in Threads \ {t} : th'[o] = th[o]
  <2>1. SpentStaysOut /\ Redeemable(codes, r.code)
    BY <1>3, ExchangeCodeMoves DEF After, TEInv
  <2> QED
    BY <1>3, <2>1, ExchangeCodeMoves DEF After, Redeemable, SpentStaysOut
<1>4. ASSUME NEW o \in Threads \ {t}, NEW r \in Requests, ExchangeCode(o, r)
      PROVE  th'[t] = th[t]
  BY <1>4, ExchangeCodeMoves DEF After
<1>5. ASSUME NEW o \in Threads, ReadReplay(o)
      PROVE  th'[t].req = th[t].req /\ th'[t].grant = th[t].grant
  BY <1>5, ReadReplayMoves DEF After
<1>6. ASSUME NEW o \in Threads, Elsewhere(o)
      PROVE  th'[t].req = th[t].req /\ th'[t].grant = th[t].grant
  BY <1>6 DEF Elsewhere
<1> QED
  BY <1>1, <1>2, <1>3, <1>4, <1>5, <1>6, WhoMoves

LEMMA OneTakerStep ==
    ASSUME TEInv, [TENext]_teVars
    PROVE  OneTaker'
<1> SUFFICES ASSUME NEW t \in Threads, NEW o \in Threads,
                    IsKind(t, "authorization_code")', th'[t].grant # NoGrant,
                    IsKind(o, "authorization_code")', th'[o].grant # NoGrant,
                    th'[t].req.code = th'[o].req.code
             PROVE  t = o
  BY DEF OneTaker, IsKind
<1>1. OneTaker /\ RequestInPlace(t) /\ RequestInPlace(o)
  BY Basics DEF TEInv
<1> QED
  BY <1>1, Takers DEF OneTaker, RequestInPlace, IsKind

(* A code exchange is answered with tokens only where it fills the cache.  *)
LEMMA AnsweredExchanges ==
    ASSUME TEInv, [TENext]_teVars, NEW o \in Threads,
           IsKind(o, "authorization_code")', th'[o].status = "ok"
    PROVE  th'[o] = th[o] \/ CacheResponse(o)
<1>0. /\ th[o].pc # "done" => th[o].status = "none"
      /\ th'[o].req # NoRequest /\ th'[o].req.kind = "authorization_code"
  BY Basics DEF RequestInPlace, IsKind
<1>1. CASE th[o].pc = "done"
  BY <1>1, DoneIsFinal
<1>2. CASE Restart
  BY <1>0, <1>2, RestartMoves
<1>3. ASSUME NEW t \in Threads \ {o}, CacheResponse(t) PROVE th'[o] = th[o]
  BY <1>3, CacheResponseMoves DEF After
<1>4. ASSUME NEW t \in Threads, NEW r \in Requests, ExchangeCode(t, r)
      PROVE  th'[o] = th[o]
  BY <1>0, <1>4, ExchangeCodeMoves DEF After
<1>5. ASSUME NEW t \in Threads, ReadReplay(t) PROVE th'[o] = th[o]
  BY <1>0, <1>5, ReadReplayMoves DEF After
<1>6. ASSUME NEW t \in Threads, Elsewhere(t) PROVE th'[o] = th[o]
  BY <1>0, <1>6 DEF Elsewhere, IsKind
<1> QED
  BY <1>1, <1>2, <1>3, <1>4, <1>5, <1>6, WhoMoves

(* Filling the cache: the entry of the answered code is new, another one   *)
(* stays as it is unless its time is over.                                 *)
LEMMA CacheFilled ==
    ASSUME TEInv, NEW t \in Threads, CacheResponse(t)
    PROVE  LET code == th[t].req.code
           IN  /\ code \in Codes
               /\ code \in DOMAIN replay'
               /\ replay'[code] = [body |-> th[t].body, expires |-> now + ReplayTTL]
               /\ \A c \in DOMAIN replay' \ {code} :
                    c \in DOMAIN replay /\ replay'[c] = replay[c]
               /\ \A c \in DOMAIN replay \ {code} :
                    c \in DOMAIN replay' \/ now > replay[c].expires
               /\ now' = now /\ restarts' = restarts
<1> DEFINE code == th[t].req.code
           entry == [body |-> th[t].body, expires |-> now + ReplayTTL]
           filled == Put(replay, code, entry)
           old == {c \in DOMAIN filled : Expired(filled[c].expires)}
<1>1. th[t].pc = "cache" /\ RequestInPlace(t) /\ now \in Nat
  BY CacheResponseMoves, Basics
<1>2. code \in Codes
  BY <1>1, RequestAssumption DEF RequestInPlace
<1>3. replay' = Without(filled, old)
  BY DEF CacheResponse
<1>4. now' = now /\ restarts' = restarts
  BY DEF CacheResponse, gsVars
<1>5. /\ DOMAIN filled = DOMAIN replay \cup {code}
      /\ filled[code] = entry
      /\ \A c \in DOMAIN replay \ {code} : filled[c] = replay[c]
  BY DEF Put
<1>6. entry.expires = now + ReplayTTL
  OBVIOUS
<1> HIDE DEF filled, entry, code
<1>7. code \notin old
  BY <1>1, <1>5, <1>6, ShapeAssumption DEF Expired
<1>8. /\ DOMAIN replay' = DOMAIN filled \ old
      /\ \A c \in DOMAIN filled \ old : replay'[c] = filled[c]
  BY <1>3 DEF Without, Restrict
<1> QED
  BY <1>2, <1>4, <1>5, <1>7, <1>8 DEF Expired, code, entry

(* The entry of an answered exchange is its answer.                        *)
LEMMA EntryOfAnswer ==
    ASSUME TEInv, NEW o \in Threads,
           IsKind(o, "authorization_code"), th[o].status = "ok",
           th[o].req.code \in DOMAIN replay
    PROVE  replay[th[o].req.code].expires = th[o].at + ReplayTTL
<1>1. PICK p \in Threads :
        /\ Exchanging(p, th[o].req.code)
        /\ th[p].status = "ok"
        /\ replay[th[o].req.code] = [body |-> th[p].body,
                                     expires |-> th[p].at + ReplayTTL]
  BY DEF TEInv, CacheExplained
<1>2. th[o].grant # NoGrant /\ th[p].grant # NoGrant
  BY <1>1, Basics DEF RequestInPlace
<1>3. OneTaker
  BY DEF TEInv
<1>4. o = p
  BY <1>1, <1>2, <1>3 DEF OneTaker, Exchanging
<1> QED
  BY <1>1, <1>4

(* An exchange that was answered stays as it is.                           *)
LEMMA AnswerStays ==
    ASSUME TEInv, [TENext]_teVars, NEW o \in Threads, th[o].status = "ok"
    PROVE  th[o].pc = "done" /\ th'[o] = th[o] /\ MintedBy(o)
<1>1. th[o].pc = "done" /\ MintedBy(o)
  BY Basics DEF RequestInPlace
<1> QED
  BY <1>1, DoneIsFinal

LEMMA CacheExplainedStep ==
    ASSUME TEInv, [TENext]_teVars
    PROVE  CacheExplained'
<1> SUFFICES ASSUME NEW c \in DOMAIN replay'
             PROVE  \E o \in Threads :
                      /\ Exchanging(o, c)'
                      /\ th'[o].status = "ok"
                      /\ replay'[c] = [body |-> th'[o].body,
                                       expires |-> th'[o].at + ReplayTTL]
  BY DEF CacheExplained
<1>1. CASE c \in DOMAIN replay /\ replay'[c] = replay[c]
  <2>1. PICK o \in Threads :
          /\ Exchanging(o, c)
          /\ th[o].status = "ok"
          /\ replay[c] = [body |-> th[o].body, expires |-> th[o].at + ReplayTTL]
    BY <1>1 DEF TEInv, CacheExplained
  <2>2. th'[o] = th[o]
    BY <2>1, AnswerStays
  <2> QED
    BY <1>1, <2>1, <2>2 DEF Exchanging, IsKind
<1>2. CASE Restart
  <2>1. replay' = << >>
    BY <1>2 DEF Restart
  <2> QED
    BY <2>1
<1>3. ASSUME NEW t \in Threads, CacheResponse(t), c = th[t].req.code
      PROVE  /\ Exchanging(t, c)'
             /\ th'[t].status = "ok"
             /\ replay'[c] = [body |-> th'[t].body,
                              expires |-> th'[t].at + ReplayTTL]
  <2>1. /\ th[t].req \in Requests /\ th[t].req.kind = "authorization_code"
        /\ th'[t].req = th[t].req /\ th'[t].body = th[t].body
        /\ th'[t].status = "ok" /\ th'[t].at = now
    BY <1>3, CacheResponseMoves, Basics DEF After, RequestInPlace
  <2>2. replay'[c] = [body |-> th[t].body, expires |-> now + ReplayTTL]
    BY <1>3, CacheFilled
  <2> QED
    BY <1>3, <2>1, <2>2, RequestAssumption DEF Exchanging, IsKind
<1>4. CASE UNCHANGED replay
  BY <1>1, <1>4
<1>5. ASSUME NEW t \in Threads, CacheResponse(t), c # th[t].req.code
      PROVE  c \in DOMAIN replay /\ replay'[c] = replay[c]
  BY <1>5, CacheFilled
<1> QED
  BY <1>1, <1>2, <1>3, <1>4, <1>5, WhoMoves

LEMMA CacheCompleteStep ==
    ASSUME TEInv, [TENext]_teVars
    PROVE  CacheComplete'
<1> SUFFICES ASSUME restarts' = 0, NEW o \in Threads,
                    IsKind(o, "authorization_code")', th'[o].status = "ok"
             PROVE  \/ th'[o].req.code \in DOMAIN replay'
                    \/ now' > th'[o].at + ReplayTTL
  BY DEF CacheComplete
<1>0. /\ restarts \in Nat /\ ReplayTTL \in Nat /\ now \in Nat /\ now' \in Nat
      /\ now <= now' /\ th[o].at \in Nat
  <2>1. restarts \in Nat
    BY ShapeAssumption DEF TEInv, TETypeOK
  <2> QED
    BY <2>1, StoreKept, Basics, ShapeAssumption DEF GSTypeOK, ThreadStates
<1>1. ~Restart
  <2>1. ASSUME Restart PROVE restarts' = restarts + 1
    BY <2>1 DEF Restart
  <2> QED
    BY <1>0, <2>1
<1>2. CASE CacheResponse(o)
  BY <1>2, CacheFilled, CacheResponseMoves DEF After
<1>3. CASE th'[o] = th[o]
  <2>1. IsKind(o, "authorization_code") /\ th[o].status = "ok"
    BY <1>3 DEF IsKind
  <2>2. ASSUME restarts' = restarts
        PROVE  \/ th[o].req.code \in DOMAIN replay
               \/ now > th[o].at + ReplayTTL
    BY <2>1, <2>2 DEF TEInv, CacheComplete
  <2>3. CASE UNCHANGED <<replay, restarts>>
    BY <1>0, <1>3, <2>2, <2>3
  <2>4. ASSUME NEW t \in Threads, CacheResponse(t)
        PROVE  \/ th'[o].req.code \in DOMAIN replay'
               \/ now' > th'[o].at + ReplayTTL
    <3>1. CASE th[o].req.code = th[t].req.code
      BY <1>3, <2>4, <3>1, CacheFilled
    <3>2. CASE th[o].req.code \in DOMAIN replay \ {th[t].req.code}
      <4>1. replay[th[o].req.code].expires = th[o].at + ReplayTTL
        BY <2>1, <3>2, EntryOfAnswer
      <4>2. \/ th[o].req.code \in DOMAIN replay'
            \/ now' = now /\ now > replay[th[o].req.code].expires
        BY <2>4, <3>2, CacheFilled
      <4> QED
        BY <1>3, <4>1, <4>2
    <3>3. CASE now > th[o].at + ReplayTTL
      BY <1>3, <2>4, <3>3, CacheFilled
    <3> QED
      BY <2>2, <2>4, <3>1, <3>2, <3>3, CacheFilled
  <2> QED
    BY <1>1, <1>3, <2>3, <2>4, WhoMoves
<1> QED
  BY <1>2, <1>3, AnsweredExchanges

LEMMA ReplaysExplainedStep ==
    ASSUME TEInv, [TENext]_teVars
    PROVE  ReplaysExplained'
<1> DEFINE Explains(o, t) ==
             /\ Exchanging(o, th[t].req.code)
             /\ MintedBy(o)
             /\ th[o].pc = "done"
             /\ th[o].body = th[t].body
             /\ th[t].at < th[o].at + ReplayTTL
<1> SUFFICES ASSUME NEW t \in Threads, th'[t].status = "replayed"
             PROVE  \E o \in Threads \ {t} : Explains(o, t)'
  BY DEF ReplaysExplained
<1>0. th[t].pc # "done" => th[t].status = "none"
  BY Basics DEF RequestInPlace
<1>1. CASE th'[t] = th[t]
  <2>1. PICK o \in Threads \ {t} : Explains(o, t)
    BY <1>1 DEF TEInv, ReplaysExplained
  <2>2. th'[o] = th[o]
    BY <2>1, DoneIsFinal
  <2> QED
    BY <1>1, <2>1, <2>2 DEF Exchanging, IsKind, MintedBy
<1>2. CASE ReadReplay(t)
  <2> DEFINE code == th[t].req.code
  <2>1. /\ th[t].pc = "replay" /\ code \in DOMAIN replay
        /\ now < replay[code].expires
        /\ th'[t].req = th[t].req /\ th'[t].body = replay[code].body
        /\ th'[t].at = now
    BY <1>2, ReadReplayMoves DEF After
  <2>2. PICK o \in Threads :
          /\ Exchanging(o, code)
          /\ th[o].status = "ok"
          /\ replay[code] = [body |-> th[o].body,
                             expires |-> th[o].at + ReplayTTL]
    BY <2>1 DEF TEInv, CacheExplained
  <2>3. th'[o] = th[o] /\ MintedBy(o) /\ th[o].pc = "done"
    BY <2>2, AnswerStays
  <2>4. o # t
    BY <2>1, <2>3
  <2>5. replay[code].expires = th[o].at + ReplayTTL /\ replay[code].body = th[o].body
    BY <2>2
  <2> QED
    BY <2>1, <2>2, <2>3, <2>4, <2>5 DEF Exchanging, IsKind, MintedBy
<1> HIDE DEF Explains
<1>3. th'[t] = th[t] \/ ReadReplay(t)
  <2>1. CASE Restart
    BY <2>1, RestartMoves
  <2>2. ASSUME NEW o \in Threads, CacheResponse(o) PROVE th'[t] = th[t]
    BY <2>2, CacheResponseMoves DEF After
  <2>3. ASSUME NEW o \in Threads, NEW r \in Requests, ExchangeCode(o, r)
        PROVE  th'[t] = th[t]
    BY <2>3, ExchangeCodeMoves DEF After
  <2>4. ASSUME NEW o \in Threads \ {t}, ReadReplay(o) PROVE th'[t] = th[t]
    BY <2>4, ReadReplayMoves DEF After
  <2>5. ASSUME NEW o \in Threads, Elsewhere(o) PROVE th'[t] = th[t]
    BY <2>5 DEF Elsewhere
  <2> QED
    BY <2>1, <2>2, <2>3, <2>4, <2>5, WhoMoves
<1> QED
  BY <1>1, <1>2, <1>3

(* A request that came after an answer was one already, or starts now.     *)
LEMMA LateDuplicates ==
    ASSUME TEInv, [TENext]_teVars, NEW t \in Threads, th'[t].seen = "answered"
    PROVE  \/ th[t].seen = "answered" /\ th'[t].req = th[t].req
           \/ /\ th[t].pc = "idle" /\ th'[t].pc = "replay"
              /\ Seen(th'[t].req.code) = "answered"
<1>1. CASE Restart
  BY <1>1, RestartMoves
<1>2. ASSUME NEW o \in Threads, CacheResponse(o)
      PROVE  th'[t].seen = th[t].seen /\ th'[t].req = th[t].req
  BY <1>2, CacheResponseMoves DEF After
<1>3. ASSUME NEW o \in Threads, NEW r \in Requests, ExchangeCode(o, r)
      PROVE  \/ th'[t] = th[t]
             \/ /\ th[t].pc = "idle" /\ th'[t].pc = "replay"
                /\ Seen(th'[t].req.code) = "answered"
  <2>1. th[o].pc = "idle"
    BY <1>3 DEF ExchangeCode
  <2> QED
    BY <1>3, <2>1, ExchangeCodeMoves DEF After
<1>4. ASSUME NEW o \in Threads, ReadReplay(o)
      PROVE  th'[t].seen = th[t].seen /\ th'[t].req = th[t].req
  BY <1>4, ReadReplayMoves DEF After
<1>5. ASSUME NEW o \in Threads, Elsewhere(o)
      PROVE  th'[t].seen = th[t].seen /\ th'[t].req = th[t].req
  BY <1>5 DEF Elsewhere
<1> QED
  BY <1>1, <1>2, <1>3, <1>4, <1>5, WhoMoves

LEMMA DuplicatesFollowStep ==
    ASSUME TEInv, [TENext]_teVars
    PROVE  DuplicatesFollow'
<1> SUFFICES ASSUME NEW t \in Threads, th'[t].seen = "answered"
             PROVE  \E o \in Threads : /\ Exchanging(o, th[t].req.code)'
                                       /\ th'[o].status = "ok"
  BY DEF DuplicatesFollow
<1>1. \E o \in Threads : /\ Exchanging(o, th'[t].req.code)
                         /\ th[o].status = "ok"
  <2>1. CASE th[t].seen = "answered" /\ th'[t].req = th[t].req
    BY <2>1 DEF TEInv, DuplicatesFollow
  <2>2. CASE Seen(th'[t].req.code) = "answered"
    BY <2>2 DEF Seen, Exchanging, IsKind
  <2> QED
    BY <2>1, <2>2, LateDuplicates
<1>2. PICK o \in Threads : Exchanging(o, th'[t].req.code) /\ th[o].status = "ok"
  BY <1>1
<1>3. th'[o] = th[o]
  BY <1>2, AnswerStays
<1> QED
  BY <1>2, <1>3 DEF Exchanging, IsKind

LEMMA LateDuplicateStep ==
    ASSUME TEInv, [TENext]_teVars
    PROVE  LateDuplicateServed'
<1> SUFFICES ASSUME restarts' = 0, NEW t \in Threads, NEW o \in Threads,
                    IsKind(t, "authorization_code")', th'[t].seen = "answered",
                    RefusedDuplicate(t, o)'
             PROVE  FALSE
  BY DEF LateDuplicateServed
<1> DEFINE code == th'[t].req.code
<1>0. /\ IsKind(o, "authorization_code")' /\ th'[o].req.code = code
      /\ th'[o].status = "ok" /\ th'[t].status = "invalid_grant"
      /\ th'[t].at < th'[o].at + ReplayTTL
  BY DEF RefusedDuplicate, Exchanging
<1>1. th[t].pc # "done" => th[t].status = "none"
  BY Basics DEF RequestInPlace
<1>2. restarts = 0
  <2>1. ASSUME Restart PROVE FALSE
    <3>1. restarts' = restarts + 1
      BY <2>1 DEF Restart
    <3>2. restarts \in Nat
      BY ShapeAssumption DEF TEInv, TETypeOK
    <3> QED
      BY <3>1, <3>2
  <2>2. ASSUME NEW p \in Threads, CacheResponse(p) PROVE restarts' = restarts
    BY <2>2, CacheFilled
  <2> QED
    BY <2>1, <2>2, WhoMoves
(* The request o that gave the answer had already given it.                *)
<1>3. ASSUME CacheResponse(o) PROVE FALSE
  <2>1. th[o].pc = "cache" /\ th'[o].req = th[o].req /\ th'[t].seen = th[t].seen
        /\ th'[t].req = th[t].req
    BY <1>3, CacheResponseMoves DEF After
  <2>2. RequestInPlace(o) /\ OneTaker
    BY Basics DEF TEInv
  <2>3. th[o].grant # NoGrant /\ th[o].status = "none"
    BY <2>1, <2>2 DEF RequestInPlace
  <2>4. PICK p \in Threads : Exchanging(p, code) /\ th[p].status = "ok"
    BY <2>1 DEF TEInv, DuplicatesFollow
  <2>5. th[p].grant # NoGrant
    BY <2>4, Basics DEF RequestInPlace
  <2>6. IsKind(o, "authorization_code") /\ th[o].req.code = code
    BY <1>0, <2>1 DEF IsKind
  <2>7. p = o
    BY <2>2, <2>3, <2>4, <2>5, <2>6 DEF OneTaker, Exchanging
  <2> QED
    BY <2>3, <2>4, <2>7
<1>4. th'[o] = th[o]
  BY <1>0, <1>3, AnsweredExchanges
<1>5. IsKind(o, "authorization_code") /\ th[o].status = "ok" /\ th[o].req.code = code
  BY <1>0, <1>4 DEF IsKind
<1>6. CASE th'[t] = th[t]
  <2>1. RefusedDuplicate(t, o) /\ IsKind(t, "authorization_code")
    BY <1>0, <1>4, <1>5, <1>6 DEF RefusedDuplicate, Exchanging, IsKind
  <2> QED
    BY <1>2, <1>6, <2>1 DEF TEInv, LateDuplicateServed
<1>7. CASE ReadReplay(t)
  <2>1. /\ th'[t].req = th[t].req /\ th'[t].at = now
        /\ ~(code \in DOMAIN replay /\ now < replay[code].expires)
    BY <1>0, <1>7, ReadReplayMoves DEF After
  <2>2. code \in DOMAIN replay \/ now > th[o].at + ReplayTTL
    BY <1>2, <1>5 DEF TEInv, CacheComplete
  <2>3. code \in DOMAIN replay => replay[code].expires = th[o].at + ReplayTTL
    BY <1>5, EntryOfAnswer
  <2>4. now \in Nat /\ th[o].at \in Nat /\ ReplayTTL \in Nat
    BY Basics, ShapeAssumption DEF ThreadStates
  <2> HIDE DEF code
  <2> QED
    BY <1>0, <1>4, <2>1, <2>2, <2>3, <2>4
<1>8. th'[t] = th[t] \/ ReadReplay(t)
  <2>1. CASE Restart
    BY <1>0, <2>1, RestartMoves
  <2>2. ASSUME NEW p \in Threads, CacheResponse(p) PROVE th'[t] = th[t]
    BY <1>0, <2>2, CacheResponseMoves DEF After
  <2>3. ASSUME NEW p \in Threads, NEW r \in Requests, ExchangeCode(p, r)
        PROVE  th'[t] = th[t]
    BY <1>0, <2>3, ExchangeCodeMoves DEF After
  <2>4. ASSUME NEW p \in Threads \ {t}, ReadReplay(p) PROVE th'[t] = th[t]
    BY <2>4, ReadReplayMoves DEF After
  <2>5. ASSUME NEW p \in Threads, Elsewhere(p) PROVE th'[t] = th[t]
    BY <1>0, <2>5 DEF Elsewhere, IsKind
  <2> QED
    BY <2>1, <2>2, <2>3, <2>4, <2>5, WhoMoves
<1> QED
  BY <1>6, <1>7, <1>8

-----------------------------------------------------------------------------
(* The baton.  How one step of the endpoint moves the grants of the        *)
(* sign-ins between codes, requests and refresh tokens.                    *)

CodesKept == \A c \in DOMAIN codes' : c \in DOMAIN codes /\ codes'[c] = codes[c]
TokensKept ==
    \A k \in DOMAIN refresh' : k \in DOMAIN refresh /\ refresh'[k] = refresh[k]
HandKept(t) == th'[t].grant = th[t].grant /\ (InHand(t)' => InHand(t))

(* Nothing is handed on; some holders may disappear.                       *)
Quiet ==
    /\ CodesKept /\ TokensKept
    /\ \A t \in Threads : HandKept(t)
    /\ origin' = origin

(* Request t takes the grant g of the code or refresh token x.             *)
Taken(x, t, g) ==
    /\ CodesKept /\ TokensKept
    /\ \A o \in Threads \ {t} : HandKept(o)
    /\ origin' = origin
    /\ x \in DOMAIN codes \cup DOMAIN refresh
    /\ x \notin DOMAIN codes' \cup DOMAIN refresh'
    /\ x \in Bearers(g.sid)
    /\ InHand(t)' /\ th'[t].grant = g /\ ~InHand(t)
    /\ g.sid \in DOMAIN origin /\ g = origin[g.sid]

(* Request t saves the refresh token k.                                    *)
Given(t, k) ==
    /\ CodesKept
    /\ \A o \in Threads \ {t} : HandKept(o)
    /\ th[t].pc = "save" /\ InHand(t) /\ ~InHand(t)'
    /\ th'[t].grant = th[t].grant
    /\ k \notin used /\ k \in used'
    /\ k \in DOMAIN refresh' /\ refresh'[k].grant = th[t].grant
    /\ \A j \in DOMAIN refresh' \ {k} :
         j \in DOMAIN refresh /\ refresh'[j] = refresh[j]
    /\ origin' = origin

(* A sign-in takes place, and code c is issued for it.                     *)
CodeIssued(c, ac) ==
    /\ TokensKept
    /\ \A t \in Threads : HandKept(t)
    /\ c \notin used /\ c \in used' /\ ac.sid \notin DOMAIN origin
    /\ c \in DOMAIN codes' /\ codes'[c].grant = ac
    /\ \A d \in DOMAIN codes' \ {c} : d \in DOMAIN codes /\ codes'[d] = codes[d]
    /\ origin' = Put(origin, ac.sid, [user |-> ac.user, client |-> ac.client,
                                      scope |-> ac.scope, sid |-> ac.sid])

(* A sign-in takes place in request t itself.                              *)
SignedIn(t, g) ==
    /\ CodesKept /\ TokensKept
    /\ \A o \in Threads \ {t} : HandKept(o)
    /\ ~InHand(t) /\ th'[t].grant = g /\ g.sid \notin DOMAIN origin
    /\ origin' = Put(origin, g.sid, g)

LEMMA BatonMoves ==
    ASSUME TEInv, [TENext]_teVars
    PROVE  \/ Quiet
           \/ \E x \in Codes \cup RefreshTokens, t \in Threads,
                 g \in RefreshGrants : Taken(x, t, g)
           \/ \E t \in Threads, k \in RefreshTokens : Given(t, k)
           \/ \E c \in Codes, ac \in AuthCodes : CodeIssued(c, ac)
           \/ \E t \in Threads, g \in RefreshGrants : SignedIn(t, g)
<1> USE DEF CodesKept, TokensKept
<1>0. \A t \in Threads : th'[t] = th[t] => HandKept(t)
  BY DEF HandKept, InHand
<1>1. ASSUME NEW t \in Threads, NEW r \in Requests, ExchangeCode(t, r)
      PROVE  \/ Quiet
             \/ \E x \in Codes \cup RefreshTokens, g \in RefreshGrants :
                  Taken(x, t, g)
  <2>1. /\ codes' = Without(codes, {r.code}) /\ refresh' = refresh
        /\ origin' = origin
    BY <1>1 DEF ExchangeCode, ConsumeCode
  <2>2. /\ CodesKept /\ TokensKept /\ r.code \notin DOMAIN codes'
    BY <2>1 DEF Without, Restrict
  <2>3. th[t].pc = "idle" /\ th[t].grant = NoGrant /\ r.code \in Codes
        /\ ~InHand(t)
    BY <1>1, ExchangeCodeMoves, IdleFields, RequestAssumption DEF InHand
  <2>4. \A o \in Threads \ {t} : th'[o] = th[o]
    BY <1>1, ExchangeCodeMoves DEF After
  <2>5. CASE /\ th'[t].grant = NoGrant /\ th'[t].pc \in {"replay", "done"}
    <3>1. HandKept(t)
      BY <2>3, <2>5 DEF HandKept, InHand
    <3> QED
      BY <1>0, <2>1, <2>2, <2>4, <3>1 DEF Quiet
  <2>6. CASE /\ Redeemable(codes, r.code)
             /\ ExchangeAllowed(r, codes[r.code].grant)
             /\ After(t, "lookup", r, Granted(r), NoBody, "none", "new")
    <3> DEFINE ac == codes[r.code].grant
               g == Granted(r)
    <3>1. r.code \in DOMAIN codes /\ g \in RefreshGrants
      BY <2>6, GrantedType DEF Redeemable
    <3>2. g.sid = ac.sid /\ g.user = ac.user /\ g.client = ac.client
          /\ g.scope = ac.scope
      BY <2>6 DEF Granted, ExchangeAllowed
    <3>3. g = [user |-> ac.user, client |-> ac.client, scope |-> ac.scope,
               sid |-> ac.sid]
      BY <2>6 DEF Granted, ExchangeAllowed
    <3>4. ac.sid \in DOMAIN origin /\ origin[ac.sid] = g
      BY <3>1, <3>3 DEF TEInv, GrantsKeepOrigin
    <3>5. r.code \in Bearers(g.sid)
      BY <3>1, <3>2 DEF Bearers
    <3>6. InHand(t)' /\ th'[t].grant = g
      BY <2>6 DEF After, InHand
    <3>7. r.code \notin DOMAIN refresh'
      BY <2>1, <2>3, NameAssumption DEF TEInv, TETypeOK, GSTypeOK
    <3> HIDE DEF g
    <3>8. Taken(r.code, t, g)
      BY <1>0, <2>1, <2>2, <2>3, <2>4, <3>1, <3>2, <3>4, <3>5, <3>6, <3>7
         DEF Taken
    <3> QED
      BY <2>3, <3>1, <3>8
  <2> QED
    BY <1>1, <2>5, <2>6, ExchangeCodeMoves DEF After
<1>2. ASSUME NEW t \in Threads, NEW r \in Requests, RefreshExchange(t, r)
      PROVE  \/ Quiet
             \/ \E x \in Codes \cup RefreshTokens, g \in RefreshGrants :
                  Taken(x, t, g)
  <2>1. /\ refresh' = Without(refresh, {r.token}) /\ codes' = codes
        /\ origin' = origin
    BY <1>2 DEF RefreshExchange, ConsumeRefreshToken
  <2>2. /\ CodesKept /\ TokensKept /\ r.token \notin DOMAIN refresh'
    BY <2>1 DEF Without, Restrict
  <2>3. /\ th[t].pc = "idle" /\ th[t].grant = NoGrant /\ r.token \in RefreshTokens
        /\ ~InHand(t)
    BY <1>2, RefreshExchangeMoves, IdleFields, RequestAssumption DEF InHand
  <2>4. \A o \in Threads \ {t} : th'[o] = th[o]
    BY <1>2, RefreshExchangeMoves DEF After, Refused, MintedAtOnce
  <2>5. CASE Refused(t, r)
    <3>1. HandKept(t)
      BY <2>3, <2>5 DEF HandKept, InHand, Refused, After
    <3> QED
      BY <1>0, <2>1, <2>2, <2>4, <3>1 DEF Quiet
  <2>6. CASE /\ Redeemable(refresh, r.token)
             /\ MintedAtOnce(t, r, refresh[r.token].grant)
    <3> DEFINE g == refresh[r.token].grant
    <3>1. r.token \in DOMAIN refresh /\ g \in RefreshGrants
      BY <2>6, Basics DEF Redeemable
    <3>2. /\ g.sid \in DOMAIN origin /\ g = origin[g.sid]
          /\ "offline_access" \in g.scope
      BY <3>1 DEF TEInv, GrantsKeepOrigin
    <3>3. r.token \in Bearers(g.sid)
      BY <3>1 DEF Bearers
    <3>4. InHand(t)' /\ th'[t].grant = g
      BY <2>6, <3>2 DEF MintedAtOnce, MintedPc, After, InHand
    <3>5. r.token \notin DOMAIN codes'
      BY <2>1, <2>3, NameAssumption DEF TEInv, TETypeOK, GSTypeOK
    <3> HIDE DEF g
    <3>6. Taken(r.token, t, g)
      BY <1>0, <2>1, <2>2, <2>3, <2>4, <3>1, <3>2, <3>3, <3>4, <3>5 DEF Taken
    <3> QED
      BY <2>3, <3>1, <3>6
  <2> QED
    BY <1>2, <2>5, <2>6, RefreshExchangeMoves
<1>3. ASSUME NEW t \in Threads, NEW r \in Requests, PasswordGrant(t, r)
      PROVE  Quiet \/ \E g \in RefreshGrants : SignedIn(t, g)
  <2>1. codes' = codes /\ refresh' = refresh
    BY <1>3 DEF PasswordGrant, gsVars
  <2>2. th[t].pc = "idle" /\ th[t].grant = NoGrant /\ ~InHand(t)
    BY <1>3, PasswordGrantMoves, IdleFields DEF InHand
  <2>3. \A o \in Threads \ {t} : th'[o] = th[o]
    BY <1>3, PasswordGrantMoves DEF After, Refused, MintedAtOnce
  <2>4. CASE Refused(t, r) /\ origin' = origin
    <3>1. HandKept(t)
      BY <2>2, <2>4 DEF HandKept, InHand, Refused, After
    <3> QED
      BY <1>0, <2>1, <2>3, <2>4, <3>1 DEF Quiet
  <2>5. ASSUME NEW g \in RefreshGrants, g.sid \in Sids \ DOMAIN origin,
               origin' = Put(origin, g.sid, g), MintedAtOnce(t, r, g)
        PROVE  SignedIn(t, g)
    BY <1>0, <2>1, <2>2, <2>3, <2>5 DEF SignedIn, MintedAtOnce, After
  <2> QED
    BY <1>3, <2>4, <2>5, PasswordGrantMoves
<1>4. ASSUME NEW t \in Threads, SaveRefresh(t)
      PROVE  \E k \in RefreshTokens : Given(t, k)
  <2>1. PICK k \in RefreshTokens \ used :
          /\ SaveRefreshToken(k, th[t].grant, th[t].stamp)
          /\ th'[t].pc \in {"cache", "done"} /\ th'[t].grant = th[t].grant
          /\ \A o \in Threads \ {t} : th'[o] = th[o]
    BY <1>4, SaveRefreshMoves DEF After
  <2>2. th[t].pc = "save" /\ origin' = origin
    BY <1>4 DEF SaveRefresh
  <2> DEFINE clean == Without(refresh, {j \in DOMAIN refresh :
                                          Expired(refresh[j].expiresAt)})
             entry == [grant |-> th[t].grant,
                       expiresAt |-> th[t].stamp + RefreshTTL]
  <2>3. refresh' = Put(clean, k, entry) /\ codes' = codes /\ used' = used \cup {k}
    BY <2>1 DEF SaveRefreshToken, CleanExpired
  <2>4. /\ DOMAIN clean \subseteq DOMAIN refresh
        /\ \A j \in DOMAIN clean : clean[j] = refresh[j]
    BY DEF Without, Restrict
  <2>5. entry.grant = th[t].grant
    OBVIOUS
  <2> HIDE DEF clean, entry
  <2>6. /\ k \in DOMAIN refresh' /\ refresh'[k] = entry
        /\ \A j \in DOMAIN refresh' \ {k} :
             j \in DOMAIN refresh /\ refresh'[j] = refresh[j]
    BY <2>3, <2>4 DEF Put
  <2>7. InHand(t) /\ ~InHand(t)'
    BY <2>1, <2>2 DEF InHand
  <2>8. Given(t, k)
    BY <1>0, <2>1, <2>2, <2>3, <2>5, <2>6, <2>7 DEF Given
  <2> QED
    BY <2>8
<1>5. ASSUME NEW c \in Codes, NEW ac \in AuthCodes, NEW stamp \in 0..now,
             IssueCode(c, ac, stamp)
      PROVE  CodeIssued(c, ac)
  <2> DEFINE clean == Without(codes, {j \in DOMAIN codes :
                                        Expired(codes[j].expiresAt)})
             entry == [grant |-> ac, expiresAt |-> stamp + CodeTTL]
  <2>1. /\ codes' = Put(clean, c, entry) /\ refresh' = refresh
        /\ used' = used \cup {c} /\ c \notin used
        /\ th' = th /\ ac.sid \notin DOMAIN origin
        /\ origin' = Put(origin, ac.sid, [user |-> ac.user, client |-> ac.client,
                                          scope |-> ac.scope, sid |-> ac.sid])
    BY <1>5 DEF IssueCode, SaveCode, CleanExpired
  <2>2. /\ DOMAIN clean \subseteq DOMAIN codes
        /\ \A j \in DOMAIN clean : clean[j] = codes[j]
    BY DEF Without, Restrict
  <2>3. entry.grant = ac
    OBVIOUS
  <2> HIDE DEF clean, entry
  <2>4. /\ c \in DOMAIN codes' /\ codes'[c] = entry
        /\ \A j \in DOMAIN codes' \ {c} :
             j \in DOMAIN codes /\ codes'[j] = codes[j]
    BY <2>1, <2>2 DEF Put
  <2> QED
    BY <1>0, <2>1, <2>3, <2>4 DEF CodeIssued
<1>6. ASSUME NEW tok \in RefreshTokens, Revoke(tok) PROVE Quiet
  <2>1. /\ refresh' = Without(refresh, {tok}) /\ codes' = codes
        /\ th' = th /\ origin' = origin
    BY <1>6 DEF Revoke, RevokeRefreshToken
  <2> QED
    BY <1>0, <2>1 DEF Quiet, Without, Restrict
<1>7. CASE Restart
  <2>1. codes' = << >> /\ refresh' = << >> /\ origin' = origin
    BY <1>7 DEF Restart, StoreRestart
  <2>2. ASSUME NEW t \in Threads PROVE HandKept(t)
    BY <1>7, RestartMoves DEF HandKept, InHand
  <2> QED
    BY <2>1, <2>2 DEF Quiet
<1>8. ASSUME NEW t \in Threads,
             ReadReplay(t) \/ LookupUser(t) \/ ReadClock(t) \/ CacheResponse(t)
      PROVE  Quiet
  <2>1. codes' = codes /\ refresh' = refresh /\ origin' = origin
    BY <1>8 DEF ReadReplay, LookupUser, ReadClock, CacheResponse, gsVars
  <2>2. /\ \A o \in Threads \ {t} : th'[o] = th[o]
        /\ th'[t].grant = th[t].grant /\ (InHand(t)' => InHand(t))
    <3>1. CASE ReadReplay(t)
      BY <3>1, ReadReplayMoves DEF After, InHand
    <3>2. CASE LookupUser(t)
      BY <3>2, LookupUserMoves DEF After, InHand
    <3>3. CASE ReadClock(t)
      BY <3>3, ReadClockMoves DEF After, InHand
    <3>4. CASE CacheResponse(t)
      BY <3>4, CacheResponseMoves DEF After, InHand
    <3> QED
      BY <1>8, <3>1, <3>2, <3>3, <3>4
  <2> QED
    BY <1>0, <2>1, <2>2 DEF Quiet, HandKept
<1>9. CASE \/ \E u \in users : DeleteUser(u)
           \/ ClockTick
           \/ UNCHANGED teVars
  <2>1. codes' = codes /\ refresh' = refresh /\ origin' = origin /\ th' = th
    BY <1>9 DEF DeleteUser, ClockTick, GSTick, gsVars, teVars
  <2> QED
    BY <1>0, <2>1 DEF Quiet
<1> HIDE DEF CodesKept, TokensKept
<1> QED
  BY <1>1, <1>2, <1>3, <1>4, <1>5, <1>6, <1>7, <1>8, <1>9
     DEF TENext, Begin, Step

(* A sign-in that took place stays what it was.                            *)
LEMMA OriginGrows ==
    ASSUME TEInv, [TENext]_teVars
    PROVE  /\ DOMAIN origin' \subseteq Sids
           /\ \A s \in DOMAIN origin' : origin'[s] \in RefreshGrants
           /\ \A s \in DOMAIN origin : s \in DOMAIN origin' /\ origin'[s] = origin[s]
<1>0. DOMAIN origin \subseteq Sids /\ \A s \in DOMAIN origin : origin[s] \in RefreshGrants
  BY DEF TEInv, TETypeOK
<1>1. CASE origin' = origin
  BY <1>0, <1>1
<1>2. ASSUME NEW g \in RefreshGrants, g.sid \notin DOMAIN origin,
             origin' = Put(origin, g.sid, g)
      PROVE  /\ DOMAIN origin' \subseteq Sids
             /\ \A s \in DOMAIN origin' : origin'[s] \in RefreshGrants
             /\ \A s \in DOMAIN origin :
                  s \in DOMAIN origin' /\ origin'[s] = origin[s]
  <2>1. g.sid \in Sids
    BY ShapeAssumption
  <2> QED
    BY <1>0, <1>2, <2>1 DEF Put
<1>3. ASSUME NEW c \in Codes, NEW ac \in AuthCodes, CodeIssued(c, ac)
      PROVE  \E g \in RefreshGrants : /\ g.sid \notin DOMAIN origin
                                      /\ origin' = Put(origin, g.sid, g)
  <2> DEFINE g == [user |-> ac.user, client |-> ac.client,
                   scope |-> ac.scope, sid |-> ac.sid]
  <2>1. g \in RefreshGrants
    BY ShapeAssumption
  <2> QED
    BY <1>3, <2>1 DEF CodeIssued
<1> QED
  BY <1>1, <1>2, <1>3, BatonMoves DEF Quiet, Taken, Given, SignedIn

LEMMA KeepOriginStep ==
    ASSUME TEInv, [TENext]_teVars
    PROVE  GrantsKeepOrigin'
<1> DEFINE OfCode(ac) == [user |-> ac.user, client |-> ac.client,
                          scope |-> ac.scope, sid |-> ac.sid]
           CodeGood(ac) == ac.sid \in DOMAIN origin /\ origin[ac.sid] = OfCode(ac)
           TokenGood(rg) == /\ rg.sid \in DOMAIN origin
                            /\ rg = origin[rg.sid]
                            /\ "offline_access" \in rg.scope
           HandGood(g) == g # NoGrant => g.sid \in DOMAIN origin /\ g = origin[g.sid]
<1>0. /\ \A c \in DOMAIN codes : CodeGood(codes[c].grant)
      /\ \A k \in DOMAIN refresh : TokenGood(refresh[k].grant)
      /\ \A t \in Threads : HandGood(th[t].grant)
  BY DEF TEInv, GrantsKeepOrigin
<1>1. \A s \in DOMAIN origin : s \in DOMAIN origin' /\ origin'[s] = origin[s]
  BY OriginGrows
<1>2. ASSUME NEW c \in DOMAIN codes' PROVE CodeGood(codes[c].grant)'
  <2>1. CASE c \in DOMAIN codes /\ codes'[c] = codes[c]
    BY <1>0, <1>1, <2>1
  <2>2. ASSUME NEW ac \in AuthCodes, CodeIssued(c, ac)
        PROVE  CodeGood(codes[c].grant)'
    BY <2>2 DEF CodeIssued, Put
  <2>3. ASSUME NEW d \in Codes, NEW ac \in AuthCodes, CodeIssued(d, ac), c # d
        PROVE  c \in DOMAIN codes /\ codes'[c] = codes[c]
    BY <2>3 DEF CodeIssued
  <2> QED
    BY <2>1, <2>2, <2>3, BatonMoves
       DEF Quiet, Taken, Given, SignedIn, CodesKept
<1>3. ASSUME NEW k \in DOMAIN refresh' PROVE TokenGood(refresh[k].grant)'
  <2>1. CASE k \in DOMAIN refresh /\ refresh'[k] = refresh[k]
    BY <1>0, <1>1, <2>1
  <2>2. ASSUME NEW t \in Threads, Given(t, k)
        PROVE  TokenGood(refresh[k].grant)'
    <3>1. /\ InHand(t) /\ RequestInPlace(t) /\ HandGood(th[t].grant)
          /\ refresh'[k].grant = th[t].grant /\ origin' = origin
      BY <1>0, <2>2, Basics DEF Given
    <3>3. th[t].grant \in RefreshGrants /\ "offline_access" \in th[t].grant.scope
      BY <2>2, <3>1 DEF Given, InHand, RequestInPlace
    <3>4. th[t].grant # NoGrant
      BY <3>3, ShapeAssumption
    <3> QED
      BY <3>1, <3>3, <3>4
  <2>3. ASSUME NEW t \in Threads, NEW j \in RefreshTokens, Given(t, j), k # j
        PROVE  k \in DOMAIN refresh /\ refresh'[k] = refresh[k]
    BY <2>3 DEF Given
  <2> QED
    BY <2>1, <2>2, <2>3, BatonMoves
       DEF Quiet, Taken, CodeIssued, SignedIn, TokensKept
<1>4. ASSUME NEW t \in Threads PROVE HandGood(th[t].grant)'
  <2>1. CASE th'[t].grant = th[t].grant
    BY <1>0, <1>1, <2>1
  <2>2. ASSUME NEW x, NEW g \in RefreshGrants, Taken(x, t, g)
        PROVE  HandGood(th[t].grant)'
    BY <2>2 DEF Taken
  <2>3. ASSUME NEW g \in RefreshGrants, SignedIn(t, g)
        PROVE  HandGood(th[t].grant)'
    BY <2>3 DEF SignedIn, Put
  <2> QED
    BY <2>1, <2>2, <2>3, BatonMoves
       DEF Quiet, Taken, Given, CodeIssued, SignedIn, HandKept
<1> QED
  BY <1>2, <1>3, <1>4 DEF GrantsKeepOrigin

(* What TokenFamily allows a step to do to sign-in s.                      *)
Baton(s) ==
    \/ Bearers(s)' = Bearers(s) /\ (s \in DOMAIN origin' <=> s \in DOMAIN origin)
    \/ /\ s \notin DOMAIN origin /\ s \in DOMAIN origin'
       /\ \/ \E c \in Codes \ used : Bearers(s)' = {c} /\ c \in used'
          \/ \E t \in Threads : Bearers(s)' = {t}
          \/ Bearers(s)' = {}
    \/ /\ s \in DOMAIN origin
       /\ \/ \E x \in Codes \cup RefreshTokens, t \in Threads :
               Bearers(s) = {x} /\ Bearers(s)' = {t}
          \/ \E t \in Threads, k \in RefreshTokens \ used :
               Bearers(s) = {t} /\ Bearers(s)' = {k} /\ k \in used'
          \/ Bearers(s)' = {}

(* A sign-in that has not taken place has no bearer, one that has at most  *)
(* one.                                                                    *)
LEMMA BearerFacts ==
    ASSUME TEInv, NEW s \in Sids
    PROVE  /\ s \notin DOMAIN origin => Bearers(s) = {}
           /\ \A x \in Bearers(s) : Bearers(s) = {x}
           /\ \A t \in Threads : InHand(t) => th[t].grant # NoGrant
<1>1. \A t \in Threads : InHand(t) => th[t].grant # NoGrant
  BY Basics, ShapeAssumption DEF RequestInPlace
<1>2. s \notin DOMAIN origin => Bearers(s) = {}
  BY <1>1 DEF TEInv, GrantsKeepOrigin, Bearers
<1> QED
  BY <1>1, <1>2 DEF TEInv, OneBearer

(* If nobody new holds the sign-in, nobody does or its bearer is the same. *)
LEMMA Shrinks ==
    ASSUME TEInv, [TENext]_teVars, NEW s \in Sids,
           Bearers(s)' \subseteq Bearers(s),
           s \in DOMAIN origin' <=> s \in DOMAIN origin
    PROVE  Baton(s)
BY BearerFacts DEF Baton

LEMMA BatonStep ==
    ASSUME TEInv, [TENext]_teVars, NEW s \in Sids
    PROVE  Baton(s)
<1>0. /\ DOMAIN codes \subseteq Codes /\ DOMAIN refresh \subseteq RefreshTokens
      /\ DOMAIN codes' \subseteq Codes /\ DOMAIN refresh' \subseteq RefreshTokens
  BY StoreKept DEF TEInv, TETypeOK, GSTypeOK
<1>d. /\ Codes \cap RefreshTokens = {} /\ Codes \cap Threads = {}
      /\ RefreshTokens \cap Threads = {}
  BY NameAssumption, RequestAssumption
<1>1. CASE Quiet
  <2>1. Bearers(s)' \subseteq Bearers(s)
    BY <1>1 DEF Quiet, CodesKept, TokensKept, HandKept, Bearers
  <2> QED
    BY <1>1, <2>1, Shrinks DEF Quiet
<1>2. ASSUME NEW x \in Codes \cup RefreshTokens, NEW t \in Threads,
             NEW g \in RefreshGrants, Taken(x, t, g)
      PROVE  Baton(s)
  <2>1. Bearers(s)' \subseteq Bearers(s) \cup {t}
    BY <1>2 DEF Taken, CodesKept, TokensKept, HandKept, Bearers
  <2>2. CASE s # g.sid
    <3>1. t \notin Bearers(s)'
      BY <1>0, <1>d, <1>2, <2>2 DEF Taken, Bearers
    <3> QED
      BY <1>2, <2>1, <3>1, Shrinks DEF Taken
  <2>3. CASE s = g.sid
    <3>1. t \in Bearers(s)'
      BY <1>2, <2>3 DEF Taken, Bearers
    <3>2. x \in Bearers(s) /\ s \in DOMAIN origin
      BY <1>2, <2>3 DEF Taken
    <3>3. x \notin Bearers(s)'
      BY <1>2, <1>d DEF Taken, Bearers
    <3>4. Bearers(s) = {x} /\ Bearers(s)' = {t}
      BY <2>1, <3>1, <3>2, <3>3, BearerFacts
    <3> QED
      BY <3>2, <3>4 DEF Baton
  <2> QED
    BY <2>2, <2>3
<1>3. ASSUME NEW t \in Threads, NEW k \in RefreshTokens, Given(t, k)
      PROVE  Baton(s)
  <2>1. Bearers(s)' \subseteq Bearers(s) \cup {k}
    BY <1>3 DEF Given, CodesKept, HandKept, Bearers
  <2>2. CASE s # th[t].grant.sid
    <3>1. k \notin Bearers(s)'
      BY <1>0, <1>d, <1>3, <2>2 DEF Given, Bearers
    <3> QED
      BY <1>3, <2>1, <3>1, Shrinks DEF Given
  <2>3. CASE s = th[t].grant.sid
    <3>1. k \in Bearers(s)' /\ t \in Bearers(s)
      BY <1>3, <2>3 DEF Given, Bearers
    <3>2. t \notin Bearers(s)'
      BY <1>0, <1>3, <1>d DEF Given, Bearers
    <3>3. Bearers(s) = {t} /\ Bearers(s)' = {k}
      BY <2>1, <3>1, <3>2, BearerFacts
    <3>4. s \in DOMAIN origin
      BY <3>1, BearerFacts
    <3>5. k \in RefreshTokens \ used /\ k \in used'
      BY <1>3 DEF Given
    <3> QED
      BY <3>3, <3>4, <3>5 DEF Baton
  <2> QED
    BY <2>2, <2>3
<1>4. ASSUME NEW c \in Codes, NEW ac \in AuthCodes, CodeIssued(c, ac)
      PROVE  Baton(s)
  <2>1. Bearers(s)' \subseteq Bearers(s) \cup {c}
    BY <1>4 DEF CodeIssued, TokensKept, HandKept, Bearers
  <2>2. CASE s # ac.sid
    <3>1. c \notin Bearers(s)'
      BY <1>0, <1>d, <1>4, <2>2 DEF CodeIssued, Bearers
    <3>2. s \in DOMAIN origin' <=> s \in DOMAIN origin
      BY <1>4, <2>2 DEF CodeIssued, Put
    <3> QED
      BY <2>1, <3>1, <3>2, Shrinks
  <2>3. CASE s = ac.sid
    <3>1. c \in Bearers(s)'
      BY <1>4, <2>3 DEF CodeIssued, Bearers
    <3>2. s \notin DOMAIN origin /\ s \in DOMAIN origin'
      BY <1>4, <2>3 DEF CodeIssued, Put
    <3>3. Bearers(s)' = {c}
      BY <2>1, <3>1, <3>2, BearerFacts
    <3>4. c \in Codes \ used /\ c \in used'
      BY <1>4 DEF CodeIssued
    <3> QED
      BY <3>2, <3>3, <3>4 DEF Baton
  <2> QED
    BY <2>2, <2>3
<1>5. ASSUME NEW t \in Threads, NEW g \in RefreshGrants, SignedIn(t, g)
      PROVE  Baton(s)
  <2>1. Bearers(s)' \subseteq Bearers(s) \cup {t}
    BY <1>5 DEF SignedIn, CodesKept, TokensKept, HandKept, Bearers
  <2>2. CASE s # g.sid
    <3>1. t \notin Bearers(s)'
      BY <1>0, <1>d, <1>5, <2>2 DEF SignedIn, Bearers
    <3>2. s \in DOMAIN origin' <=> s \in DOMAIN origin
      BY <1>5, <2>2 DEF SignedIn, Put
    <3> QED
      BY <2>1, <3>1, <3>2, Shrinks
  <2>3. CASE s = g.sid
    <3>1. s \notin DOMAIN origin /\ s \in DOMAIN origin'
      BY <1>5, <2>3 DEF SignedIn, Put
    <3>2. Bearers(s)' = {t} \/ Bearers(s)' = {}
      BY <2>1, <3>1, BearerFacts
    <3> QED
      BY <3>1, <3>2 DEF Baton
  <2> QED
    BY <2>2, <2>3
<1> QED
  BY <1>1, <1>2, <1>3, <1>4, <1>5, BatonMoves

LEMMA OneBearerStep ==
    ASSUME TEInv, [TENext]_teVars
    PROVE  OneBearer'
<1> SUFFICES ASSUME NEW s \in Sids
             PROVE  \A x, y \in Bearers(s)' : x = y
  BY DEF OneBearer
<1>1. \A x, y \in Bearers(s) : x = y
  BY DEF TEInv, OneBearer
<1> QED
  BY <1>1, BatonStep DEF Baton

(* A sign-in that nobody can continue stays so.                            *)
LEMMA LostForGood ==
    ASSUME TEInv, [TENext]_teVars, NEW s \in DOMAIN origin, Bearers(s) = {}
    PROVE  Bearers(s)' = {}
<1>1. s \in Sids
  BY DEF TEInv, TETypeOK
<1> QED
  BY <1>1, BatonStep DEF Baton

LEMMA RevokedStep ==
    ASSUME TEInv, [TENext]_teVars
    PROVE  RevokedStaysRevoked' /\ killed' \subseteq DOMAIN origin'
<1>0. killed \subseteq DOMAIN origin /\ RevokedStaysRevoked
  BY DEF TEInv, TETypeOK
<1>1. ASSUME NEW s \in killed PROVE Bearers(s)' = {} /\ s \in DOMAIN origin'
  BY <1>0, <1>1, LostForGood, OriginGrows DEF RevokedStaysRevoked
<1>2. CASE killed' = killed
  BY <1>1, <1>2 DEF RevokedStaysRevoked
<1>3. ASSUME NEW tok \in RefreshTokens, Revoke(tok)
      PROVE  RevokedStaysRevoked' /\ killed' \subseteq DOMAIN origin'
  <2>1. /\ refresh' = Without(refresh, {tok}) /\ codes' = codes /\ th' = th
        /\ origin' = origin
        /\ killed' = killed \cup {refresh[k].grant.sid : k \in {tok} \cap DOMAIN refresh}
    BY <1>3 DEF Revoke, RevokeRefreshToken
  <2>2. ASSUME tok \in DOMAIN refresh, NEW s, s = refresh[tok].grant.sid
        PROVE  Bearers(s)' = {} /\ s \in DOMAIN origin'
    <3>1. s \in DOMAIN origin
      BY <2>2 DEF TEInv, GrantsKeepOrigin
    <3>2. s \in Sids
      BY <3>1 DEF TEInv, TETypeOK
    <3>3. Bearers(s) = {tok}
      <4>1. tok \in Bearers(s)
        BY <2>2 DEF Bearers
      <4> QED
        BY <3>2, <4>1, BearerFacts
    <3>4. Bearers(s)' \subseteq Bearers(s)
      BY <2>1 DEF Bearers, InHand, Without, Restrict
    <3>5. tok \notin DOMAIN refresh' /\ tok \notin DOMAIN codes' /\ tok \notin Threads
      BY <2>1, NameAssumption, RequestAssumption
         DEF Without, Restrict, TEInv, TETypeOK, GSTypeOK
    <3>6. tok \notin Bearers(s)'
      BY <3>5 DEF Bearers
    <3> QED
      BY <2>1, <3>1, <3>3, <3>4, <3>6
  <2>3. \A s \in killed' : s \in killed \/ (tok \in DOMAIN refresh
                                            /\ s = refresh[tok].grant.sid)
    BY <2>1
  <2> QED
    BY <1>1, <2>2, <2>3 DEF RevokedStaysRevoked
<1>4. killed' = killed \/ \E tok \in RefreshTokens : Revoke(tok)
  BY DEF TENext, Begin, Step, ExchangeCode, RefreshExchange, PasswordGrant,
         ReadReplay, LookupUser, ReadClock, SaveRefresh, CacheResponse,
         IssueCode, DeleteUser, Restart, ClockTick, teVars
<1> QED
  BY <1>2, <1>3, <1>4

-----------------------------------------------------------------------------
(* The invariant, and what follows from it.                                *)

LEMMA RestNotMoved ==
    ASSUME TEInv, [TENext]_teVars
    PROVE  users' \subseteq Users /\ restarts' \in 0..MaxRestarts
<1>0. users \subseteq Users /\ restarts \in 0..MaxRestarts /\ MaxRestarts \in Nat
  BY ShapeAssumption DEF TEInv, TETypeOK
<1>1. users' \subseteq users
  BY DEF TENext, Begin, Step, ExchangeCode, RefreshExchange, PasswordGrant,
         ReadReplay, LookupUser, ReadClock, SaveRefresh, CacheResponse,
         Revoke, IssueCode, DeleteUser, Restart, ClockTick, teVars
<1>2. CASE Restart
  <2>1. restarts' = restarts + 1 /\ restarts < MaxRestarts
    BY <1>2 DEF Restart
  <2> QED
    BY <1>0, <1>1, <2>1
<1>3. ASSUME NEW t \in Threads, CacheResponse(t) PROVE restarts' = restarts
  BY <1>3 DEF CacheResponse
<1> QED
  BY <1>0, <1>1, <1>2, <1>3, WhoMoves

LEMMA TETypeStep ==
    ASSUME TEInv, [TENext]_teVars
    PROVE  TETypeOK'
<1>1. /\ GSTypeOK' /\ th' \in [Threads -> ThreadStates] /\ RequestsInPlace'
      /\ CacheExplained'
  BY StoreKept, InPlaceStep, CacheExplainedStep
<1>2. ASSUME NEW c \in DOMAIN replay'
      PROVE  c \in Codes /\ replay'[c] \in [body : Bodies, expires : Nat]
  <2>1. PICK o \in Threads :
          /\ Exchanging(o, c)'
          /\ th'[o].status = "ok"
          /\ replay'[c] = [body |-> th'[o].body, expires |-> th'[o].at + ReplayTTL]
    BY <1>1 DEF CacheExplained
  <2>2. RequestInPlace(o)' /\ th'[o] \in ThreadStates
    BY <1>1 DEF RequestsInPlace
  <2>3. th'[o].body \in Bodies /\ th'[o].at + ReplayTTL \in Nat
    BY <2>1, <2>2, ShapeAssumption DEF RequestInPlace, ThreadStates
  <2>4. th'[o].req \in Requests \cup {NoRequest}
    BY <2>2 DEF ThreadStates
  <2>5. c \in Codes
    BY <2>1, <2>4, RequestAssumption DEF Exchanging, IsKind
  <2> QED
    BY <2>1, <2>3, <2>5
<1> QED
  BY <1>1, <1>2, RestNotMoved, OriginGrows, RevokedStep DEF TETypeOK

LEMMA TEInvInit == TEInit => TEInv
<1> SUFFICES ASSUME TEInit PROVE TEInv
  OBVIOUS
<1>1. GSTypeOK /\ SpentStaysOut /\ now = 0 /\ codes = << >> /\ refresh = << >>
  <2>1. GSInit
    BY DEF TEInit
  <2> QED
    BY <2>1, TypeInit DEF GSInit, NewStore, SpentStaysOut
<1>2. /\ replay = << >> /\ users = Users /\ restarts = 0 /\ origin = << >>
      /\ killed = {} /\ th = [t \in Threads |-> Idle]
  BY DEF TEInit
<1>3. \A t \in Threads : th[t] = Idle
  BY <1>2
<1>4. TETypeOK
  BY <1>1, <1>2, IdleFields, ShapeAssumption DEF TETypeOK
<1>5. ASSUME NEW t \in Threads
      PROVE  /\ RequestInPlace(t)
             /\ th[t].req = NoRequest /\ th[t].grant = NoGrant
             /\ ~InHand(t) /\ th[t].status = "none" /\ th[t].seen = "new"
  BY <1>1, <1>3, IdleFields, BodyFacts
     DEF RequestInPlace, InHand, MintedBy, IsKind
<1>6. RequestsInPlace /\ OneTaker /\ CacheExplained /\ CacheComplete
      /\ ReplaysExplained /\ DuplicatesFollow /\ LateDuplicateServed
  BY <1>2, <1>5
     DEF RequestsInPlace, OneTaker, CacheExplained, CacheComplete,
         ReplaysExplained, DuplicatesFollow, LateDuplicateServed, IsKind
<1>7. GrantsKeepOrigin /\ OneBearer /\ RevokedStaysRevoked
  BY <1>1, <1>2, <1>5
     DEF GrantsKeepOrigin, OneBearer, RevokedStaysRevoked, Bearers
<1> QED
  BY <1>1, <1>4, <1>6, <1>7 DEF TEInv

LEMMA TEInvStep == TEInv /\ [TENext]_teVars => TEInv'
BY TETypeStep, StoreKept, InPlaceStep, KeepOriginStep, OneBearerStep,
   RevokedStep, OneTakerStep, CacheExplainedStep, CacheCompleteStep,
   ReplaysExplainedStep, DuplicatesFollowStep, LateDuplicateStep
   DEF TEInv

LEMMA TEInvHolds == TESpec => []TEInv
BY TEInvInit, TEInvStep, PTL DEF TESpec

(* Whatever requests arrive and however their accesses to the store, the   *)
(* database and the cache interleave, the endpoint's state is well formed. *)
THEOREM EndpointTyping == TESpec => []TETypeOK
<1>1. TEInv => TETypeOK
  BY DEF TEInv
<1> QED
  BY <1>1, TEInvHolds, PTL

(* handleAuthorizationCode issues one access token per code, for any number*)
(* of concurrent or repeated requests that present it.                     *)
THEOREM CodeMintsOnce == TESpec => []OneMintPerCode
<1>1. TEInv => OneMintPerCode
  <2> SUFFICES ASSUME TEInv, NEW c \in Codes, NEW t \in Threads, NEW o \in Threads,
                      Exchanging(t, c), MintedBy(t), Exchanging(o, c), MintedBy(o)
               PROVE  t = o
    BY DEF OneMintPerCode
  <2>1. th[t].grant # NoGrant /\ th[o].grant # NoGrant /\ OneTaker
    BY Basics DEF RequestInPlace, TEInv
  <2> QED
    BY <2>1 DEF OneTaker, Exchanging
<1> QED
  BY <1>1, TEInvHolds, PTL

(* Rotation never forks: at most one code, request or refresh token can    *)
(* continue a sign-in.                                                     *)
THEOREM RotationNeverForks == TESpec => []OneBearer
<1>1. TEInv => OneBearer
  BY DEF TEInv
<1> QED
  BY <1>1, TEInvHolds, PTL

(* handleRevoke ends the session of a stored refresh token for good.       *)
THEOREM RevocationIsFinal == TESpec => []RevokedStaysRevoked
<1>1. TEInv => RevokedStaysRevoked
  BY DEF TEInv
<1> QED
  BY <1>1, TEInvHolds, PTL

(* Every grant in the store or in a handler is for the user, client and    *)
(* scope that were signed in for.                                          *)
THEOREM OriginKept == TESpec => []GrantsKeepOrigin
<1>1. TEInv => GrantsKeepOrigin
  BY DEF TEInv
<1> QED
  BY <1>1, TEInvHolds, PTL

(* A response taken from codeReplayCache is the one the exchange of that   *)
(* code gave, less than codeReplayTTL ago.                                 *)
THEOREM ReplayIsFaithful == TESpec => []ReplayFaithful
<1>1. TEInv => ReplayFaithful
  BY DEF TEInv, ReplaysExplained, ReplayFaithful
<1> QED
  BY <1>1, TEInvHolds, PTL

(* Within codeReplayTTL of the answer, and without a restart, a duplicate  *)
(* exchange sent after that answer is served from the cache.               *)
THEOREM LateDuplicatesServed == TESpec => []LateDuplicateServed
<1>1. TEInv => LateDuplicateServed
  BY DEF TEInv
<1> QED
  BY <1>1, TEInvHolds, PTL

(* The endpoint implements TokenFamily: grants are handed on like a baton. *)
THEOREM EndpointImplementsFamily == TESpec => ImplementsTokenFamily
<1>1. TEInit => Family!Init
  <2> SUFFICES ASSUME TEInit PROVE Family!Init
    OBVIOUS
  <2>1. codes = << >> /\ refresh = << >> /\ used = {} /\ origin = << >>
    BY DEF TEInit, GSInit, NewStore
  <2>2. \A t \in Threads : th[t].pc = "idle"
    BY IdleFields DEF TEInit
  <2>3. \A s \in Sids : Bearers(s) = {}
    BY <2>1, <2>2 DEF Bearers, InHand
  <2> QED
    BY <2>1, <2>3 DEF Family!Init
<1>2. TEInv /\ [TENext]_teVars => [Family!Next]_Family!vars
  <2> SUFFICES ASSUME TEInv, [TENext]_teVars PROVE Family!Next
    OBVIOUS
  <2>1. used \subseteq used' /\ DOMAIN origin \subseteq DOMAIN origin'
    BY StoreKept, OriginGrows
  <2>2. ASSUME NEW s \in Sids
        PROVE  LET b == [sid \in Sids |-> Bearers(sid)]
               IN  /\ b[s] = Bearers(s) /\ b'[s] = Bearers(s)'
    OBVIOUS
  <2>3. \A s \in Sids : Baton(s)
    BY BatonStep
  <2> QED
    BY <2>1, <2>2, <2>3
       DEF Baton, Family!Next, Family!Start, Family!Take, Family!Give
<1> QED
  BY <1>1, <1>2, TEInvHolds, PTL DEF TESpec, ImplementsTokenFamily, Family!Spec
=============================================================================
