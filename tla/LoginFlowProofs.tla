-------------------------- MODULE LoginFlowProofs ---------------------------
(* Proofs about LoginFlow, for any number of browsers, requests, sessions  *)
(* and restarts.                                                           *)
EXTENDS LoginFlow, GrantStoreProofs, SessionStoreProofs

(* The request's password was right.                                       *)
Authenticated(s) ==
    /\ HasCredentials(s.req) /\ s.req.correct
    /\ s.user = s.req.user /\ s.user \in Users

Served(s) == s.pc = "done" /\ s.answer \in {"code", "tokens"}

(* What the fields of a request say at each of its program points.         *)
LoginInPlace(t) ==
    LET s == lt[t]
    IN  /\ s.pc = "idle" => s = NewThread
        /\ s.pc # "idle" => s.req \in Requests
        /\ s.pc = "done" <=> s.answer # "none"
        /\ s.pc \in {"login", "create"} => Authenticated(s) /\ s.sid = NoSession
        /\ s.pc = "lookup" =>
             /\ s.sid # NoSession /\ ~HasCredentials(s.req)
             /\ s.ssoUser \in {NoUser, s.user}
        /\ s.pc \in {"stamp", "save"} => s.sid # NoSession
        /\ s.pc \in {"lookup", "login", "create", "stamp", "save"} =>
             /\ s.user \in Users /\ s.req.uri # NoURI
             /\ s.req.path = "authorize" => s.req.uri \notin BadURIs
        /\ s.sid # NoSession =>
             /\ s.pc # "idle"
             /\ s.sid \in DOMAIN opened /\ opened[s.sid] = s.user
             /\ HasCredentials(s.req) => Authenticated(s)
        /\ s.stamp <= now
LoginsInPlace == \A t \in Threads : LoginInPlace(t)

(* A cookie comes from the answer to a login of that session's user.       *)
Earned(sid) ==
    \E o \in Threads :
        lt[o].sid = sid /\ Authenticated(lt[o]) /\ Served(lt[o])
CookiesEarned ==
    \A b \in Browsers : cookie[b] # NoCookie => Earned(cookie[b].sid)

(* A request that was signed on by cookie had a cookie that was earned.    *)
SignOnsEarned ==
    \A t \in Threads : SignedOnByCookie(t) =>
        Earned(lt[t].sid) /\ ~lt[t].loggedOut /\ lt[t].idle <= SessionTTL

(* The browser of login t can no longer name its session, or still does.   *)
Superseded(t) ==
    \E o \in Threads \ {t} :
        /\ lt[o].req # NoRequest
        /\ lt[o].req.browser = lt[t].req.browser
        /\ HasCredentials(lt[o].req)
        /\ lt[o].sid # NoSession
        /\ Served(lt[o])
InCookie(t) ==
    LET c == cookie[lt[t].req.browser]
    IN  /\ c # NoCookie /\ c.sid = lt[t].sid
        /\ c.until >= lt[t].stamp + CookieAge
(* A stored session has the login that opened it, and the browser of that  *)
(* login has the cookie unless one of the reasons below took it away.      *)
Reachable(t) ==
    /\ lt[t].req \in Requests /\ HasCredentials(lt[t].req)
    /\ \/ lt[t].pc # "done"
       \/ lt[t].answer = "panic"
       \/ now > lt[t].stamp + CookieAge
       \/ Superseded(t)
       \/ InCookie(t)
SessionsReachable ==
    \A sid \in DOMAIN sessions :
        \E t \in Threads : lt[t].sid = sid /\ Reachable(t)

(* The inductive invariant of the logins.                                  *)
LFInv ==
    /\ LFTypeOK
    /\ StoredIsFresh
    /\ LoginsInPlace
    /\ CookiesEarned
    /\ SignOnsEarned
    /\ SsoServed
    /\ SessionsReachable

-----------------------------------------------------------------------------
(* What each handler step does to the request that takes it.               *)

(* After the step request t has these fields; the others are as before.    *)
Becomes(t, pc, req, user, sid, answer, sso) ==
    /\ lt' \in [Threads -> LoginStates]
    /\ \A o \in Threads \ {t} : lt'[o] = lt[o]
    /\ lt'[t].pc = pc /\ lt'[t].req = req /\ lt'[t].user = user
    /\ lt'[t].sid = sid /\ lt'[t].answer = answer /\ lt'[t].ssoUser = sso
    /\ lt'[t].stamp <= now

Answers == {"none", "code", "tokens", "login_page", "login_required",
            "access_denied", "invalid_request", "unsupported_response_type",
            "panic", "lost"}
HistoryKept(t) ==
    lt'[t].idle = lt[t].idle /\ lt'[t].loggedOut = lt[t].loggedOut

LEMMA Writes ==
    ASSUME lt \in [Threads -> LoginStates], NEW t \in Threads,
           NEW s \in LoginStates, lt' = [lt EXCEPT ![t] = s], s.stamp <= now
    PROVE  /\ Becomes(t, s.pc, s.req, s.user, s.sid, s.answer, s.ssoUser)
           /\ lt'[t] = s
BY DEF Becomes

LEMMA LFBasics ==
    ASSUME LFInv
    PROVE  /\ lt \in [Threads -> LoginStates] /\ now \in Nat
           /\ \A t \in Threads : lt[t] \in LoginStates /\ LoginInPlace(t)
           /\ cookie \in [Browsers -> {NoCookie} \cup [sid : SessionIDs, until : Nat]]
           /\ SSSound /\ GSTypeOK
           /\ \A r \in Requests : r.browser \in Browsers
BY LoginAssumption
   DEF LFInv, LFTypeOK, LoginsInPlace, SSSound, SSTypeOK

LEMMA NewFields ==
    /\ NewThread \in LoginStates
    /\ NewThread.pc = "idle" /\ NewThread.req = NoRequest
    /\ NewThread.user = NoUser /\ NewThread.sid = NoSession
    /\ NewThread.stamp = 0 /\ NewThread.answer = "none"
    /\ NewThread.idle = 0 /\ NewThread.loggedOut = FALSE
    /\ NewThread.ssoUser = NoUser
BY DEF NewThread, LoginStates

LEMMA SsoUserType ==
    ASSUME LFInv, NEW r \in Requests
    PROVE  SsoUser(r) \in Users \cup {NoUser}
BY DEF SsoUser, LFInv, LFTypeOK

LEMMA ArrivedFields ==
    ASSUME LFInv, NEW r \in Requests
    PROVE  LET s == Arrived(r)
           IN  /\ s \in LoginStates
               /\ s.pc = "idle" /\ s.req = r /\ s.user = NoUser
               /\ s.sid = NoSession /\ s.stamp = 0 /\ s.answer = "none"
               /\ s.idle = 0 /\ s.loggedOut = FALSE /\ s.ssoUser = SsoUser(r)
BY NewFields, SsoUserType DEF Arrived, LoginStates

LEMMA AnswerFields ==
    ASSUME NEW s \in LoginStates, NEW answer \in Answers
    PROVE  LET n == Answer(s, answer)
           IN  /\ n \in LoginStates
               /\ n.pc = "done" /\ n.answer = answer /\ n.req = s.req
               /\ n.user = s.user /\ n.sid = s.sid /\ n.stamp = s.stamp
               /\ n.idle = s.idle /\ n.loggedOut = s.loggedOut
               /\ n.ssoUser = s.ssoUser
<1> DEFINE n == Answer(s, answer)
<1>1. /\ n.pc = "done" /\ n.answer = answer /\ n.req = s.req
      /\ n.user = s.user /\ n.sid = s.sid /\ n.stamp = s.stamp
      /\ n.idle = s.idle /\ n.loggedOut = s.loggedOut
      /\ n.ssoUser = s.ssoUser
  BY DEF Answer, LoginStates
<1>2. n \in LoginStates
  BY DEF Answer, LoginStates, Answers
<1> QED
  BY <1>1, <1>2

(* Request t is answered at once.                                          *)
Refuses(t, r, answer) ==
    /\ lt[t].pc = "idle" /\ HistoryKept(t)
    /\ answer \in Answers \ {"none"}
    /\ Becomes(t, "done", r, NoUser, NoSession, answer, SsoUser(r))

LEMMA RespondMoves ==
    ASSUME LFInv, NEW t \in Threads, NEW r \in Requests, lt[t].pc = "idle",
           NEW answer \in Answers \ {"none"}, Respond(t, r, answer)
    PROVE  Refuses(t, r, answer)
<1> DEFINE a == Arrived(r)
           s == Answer(a, answer)
<1>1. /\ a \in LoginStates
      /\ a.req = r /\ a.user = NoUser /\ a.sid = NoSession /\ a.stamp = 0
      /\ a.idle = 0 /\ a.loggedOut = FALSE /\ a.ssoUser = SsoUser(r)
  BY ArrivedFields
<1> HIDE DEF a
<1>2. /\ s \in LoginStates /\ s.pc = "done" /\ s.req = r /\ s.user = NoUser
      /\ s.sid = NoSession /\ s.stamp = 0 /\ s.answer = answer
      /\ s.idle = 0 /\ s.loggedOut = FALSE /\ s.ssoUser = SsoUser(r)
  BY <1>1, AnswerFields
<1>3. lt' = [lt EXCEPT ![t] = s]
  BY DEF Respond, a
<1>4. lt \in [Threads -> LoginStates] /\ now \in Nat /\ lt[t] = NewThread
  BY LFBasics DEF LoginInPlace
<1> HIDE DEF s
<1>5. s.stamp <= now
  BY <1>2, <1>4
<1>6. /\ Becomes(t, s.pc, s.req, s.user, s.sid, s.answer, s.ssoUser)
      /\ lt'[t] = s
  BY <1>2, <1>3, <1>4, <1>5, Writes
<1> QED
  BY <1>2, <1>4, <1>6, NewFields DEF Refuses, HistoryKept

(* Request t has given a good password and goes on to open a session.      *)
Begins(t, r) ==
    /\ lt[t].pc = "idle" /\ HistoryKept(t)
    /\ r.given = "both" /\ r.correct /\ r.user \in Users /\ r.uri # NoURI
    /\ r.path = "authorize" => r.uri \notin BadURIs
    /\ Becomes(t, "login", r, r.user, NoSession, "none", SsoUser(r))

LEMMA BeginMoves ==
    ASSUME LFInv, NEW t \in Threads, NEW r \in Requests, lt[t].pc = "idle",
           HasCredentials(r), GoodCredentials(r), r.uri # NoURI,
           r.path = "authorize" => r.uri \notin BadURIs,
           lt' = [lt EXCEPT ![t] = [Arrived(r) EXCEPT !.pc = "login",
                                                      !.user = r.user]]
    PROVE  Begins(t, r)
<1> DEFINE a == Arrived(r)
           s == [a EXCEPT !.pc = "login", !.user = r.user]
<1>1. /\ a \in LoginStates
      /\ a.req = r /\ a.user = NoUser /\ a.sid = NoSession /\ a.stamp = 0
      /\ a.answer = "none"
      /\ a.idle = 0 /\ a.loggedOut = FALSE /\ a.ssoUser = SsoUser(r)
  BY ArrivedFields
<1>2. r.user \in Users /\ r.correct /\ r.given = "both"
  BY DEF GoodCredentials, HasCredentials, LFInv, LFTypeOK
<1> HIDE DEF a
<1>3. /\ s \in LoginStates /\ s.pc = "login" /\ s.req = r /\ s.user = r.user
      /\ s.sid = NoSession /\ s.stamp = 0 /\ s.answer = "none"
      /\ s.idle = 0 /\ s.loggedOut = FALSE /\ s.ssoUser = SsoUser(r)
  BY <1>1, <1>2 DEF LoginStates
<1>4. lt' = [lt EXCEPT ![t] = s]
  BY DEF a
<1>5. lt \in [Threads -> LoginStates] /\ now \in Nat /\ lt[t] = NewThread
  BY LFBasics DEF LoginInPlace
<1> HIDE DEF s
<1>6. s.stamp <= now
  BY <1>3, <1>5
<1>7. /\ Becomes(t, s.pc, s.req, s.user, s.sid, s.answer, s.ssoUser)
      /\ lt'[t] = s
  BY <1>3, <1>4, <1>5, <1>6, Writes
<1> QED
  BY <1>2, <1>3, <1>5, <1>7, NewFields DEF Begins, HistoryKept

(* Request t came with the cookie of a live session.                       *)
SignsOn(t, r, sid) ==
    /\ lt[t].pc = "idle"
    /\ sid # NoSession /\ sid = CookieSent(r.browser) /\ SessionLive(sid)
    /\ ~HasCredentials(r) /\ r.uri # NoURI /\ r.uri \notin BadURIs
    /\ lt'[t].idle = now - lastUse[sid] /\ lt'[t].loggedOut = (sid \in ended)
    /\ Becomes(t, "lookup", r, sessions[sid].user, sid, "none", SsoUser(r))

LEMMA SignOnMoves ==
    ASSUME LFInv, NEW t \in Threads, NEW r \in Requests, lt[t].pc = "idle",
           NEW sid, sid = CookieSent(r.browser), sid # NoSession,
           SessionLive(sid), ~HasCredentials(r),
           r.uri # NoURI, r.uri \notin BadURIs,
           lt' = [lt EXCEPT ![t] =
                    [Arrived(r) EXCEPT !.pc = "lookup", !.sid = sid,
                                       !.user = sessions[sid].user,
                                       !.idle = now - lastUse[sid],
                                       !.loggedOut = sid \in ended]]
    PROVE  SignsOn(t, r, sid)
<1> DEFINE a == Arrived(r)
           user == sessions[sid].user
           unused == now - lastUse[sid]
           gone == sid \in ended
           s == [a EXCEPT !.pc = "lookup", !.sid = sid, !.user = user,
                          !.idle = unused, !.loggedOut = gone]
<1>1. /\ a \in LoginStates
      /\ a.req = r /\ a.stamp = 0 /\ a.answer = "none" /\ a.ssoUser = SsoUser(r)
  BY ArrivedFields
<1>2. /\ sid \in DOMAIN sessions /\ sid \in SessionIDs
      /\ sessions[sid].user \in Users
      /\ sid \in DOMAIN lastUse /\ lastUse[sid] \in Nat /\ lastUse[sid] <= now
      /\ now \in Nat
  BY LFBasics DEF SessionLive, SSSound, SSTypeOK, StoredIsFresh
<1>3. unused \in Nat /\ gone \in BOOLEAN /\ user \in Users
  BY <1>2
<1> HIDE DEF a, user, unused, gone
<1>4. /\ s \in LoginStates /\ s.pc = "lookup" /\ s.req = r
      /\ s.user = user /\ s.sid = sid /\ s.stamp = 0
      /\ s.answer = "none" /\ s.ssoUser = SsoUser(r)
      /\ s.idle = unused /\ s.loggedOut = gone
  BY <1>1, <1>2, <1>3 DEF LoginStates
<1>5. lt' = [lt EXCEPT ![t] = s]
  BY DEF a, user, unused, gone
<1>6. lt \in [Threads -> LoginStates]
  BY LFBasics
<1> HIDE DEF s
<1>7. s.stamp <= now
  BY <1>2, <1>4
<1>8. /\ Becomes(t, s.pc, s.req, s.user, s.sid, s.answer, s.ssoUser)
      /\ lt'[t] = s
  BY <1>4, <1>5, <1>6, <1>7, Writes
<1> QED
  BY <1>4, <1>8 DEF SignsOn, user, unused, gone

(* Request t goes on, or is sent to the login page because its user is     *)
(* gone.                                                                   *)
Proceeds(t, pc, answer) ==
    /\ HistoryKept(t)
    /\ \/ /\ lt[t].pc \in {"lookup", "login", "stamp"} /\ answer = "none"
          /\ pc = CASE lt[t].pc = "lookup" -> "stamp"
                    [] lt[t].pc = "login" -> "create"
                    [] OTHER -> "save"
       \/ /\ lt[t].pc = "lookup" /\ pc = "done" /\ answer = "login_page"
          /\ lt[t].user \notin users
    /\ Becomes(t, pc, lt[t].req, lt[t].user, lt[t].sid, answer, lt[t].ssoUser)

LEMMA ProceedMoves ==
    ASSUME LFInv, NEW t \in Threads,
           LookupSessionUser(t) \/ SessionStamp(t) \/ CodeStamp(t)
    PROVE  Proceeds(t, "done", "login_page")
           \/ \E pc \in {"stamp", "create", "save"} : Proceeds(t, pc, "none")
<1>0. /\ lt \in [Threads -> LoginStates] /\ now \in Nat /\ lt[t] \in LoginStates
      /\ lt[t].pc # "done" => lt[t].answer = "none"
      /\ lt[t].stamp <= now
  BY LFBasics DEF LoginInPlace
<1>1. ASSUME NEW pc \in {"create", "save"},
             lt' = [lt EXCEPT ![t].pc = pc, ![t].stamp = now],
             \/ lt[t].pc = "login" /\ pc = "create"
             \/ lt[t].pc = "stamp" /\ pc = "save"
      PROVE  Proceeds(t, pc, "none")
  <2> DEFINE s == [lt[t] EXCEPT !.pc = pc, !.stamp = now]
  <2>1. lt' = [lt EXCEPT ![t] = s]
    BY <1>0, <1>1
  <2>2. /\ s \in LoginStates /\ s.pc = pc /\ s.stamp = now
        /\ s.req = lt[t].req /\ s.user = lt[t].user /\ s.sid = lt[t].sid
        /\ s.answer = "none" /\ s.ssoUser = lt[t].ssoUser
        /\ s.idle = lt[t].idle /\ s.loggedOut = lt[t].loggedOut
    BY <1>0, <1>1 DEF LoginStates
  <2> HIDE DEF s
  <2>3. s.stamp <= now
    BY <1>0, <2>2
  <2>4. /\ Becomes(t, s.pc, s.req, s.user, s.sid, s.answer, s.ssoUser)
        /\ lt'[t] = s
    BY <1>0, <2>1, <2>2, <2>3, Writes
  <2> QED
    BY <1>1, <2>2, <2>4 DEF Proceeds, HistoryKept
<1>2. CASE SessionStamp(t)
  BY <1>1, <1>2 DEF SessionStamp
<1>3. CASE CodeStamp(t)
  BY <1>1, <1>3 DEF CodeStamp
<1>4. CASE LookupSessionUser(t) /\ lt[t].user \in users
  <2> DEFINE s == [lt[t] EXCEPT !.pc = "stamp"]
  <2>1. lt' = [lt EXCEPT ![t] = s] /\ lt[t].pc = "lookup"
    BY <1>4 DEF LookupSessionUser
  <2>2. /\ s \in LoginStates /\ s.pc = "stamp" /\ s.stamp = lt[t].stamp
        /\ s.req = lt[t].req /\ s.user = lt[t].user /\ s.sid = lt[t].sid
        /\ s.answer = "none" /\ s.ssoUser = lt[t].ssoUser
        /\ s.idle = lt[t].idle /\ s.loggedOut = lt[t].loggedOut
    BY <1>0, <2>1 DEF LoginStates
  <2> HIDE DEF s
  <2>3. /\ Becomes(t, s.pc, s.req, s.user, s.sid, s.answer, s.ssoUser)
        /\ lt'[t] = s
    BY <1>0, <2>1, <2>2, Writes
  <2> QED
    BY <2>1, <2>2, <2>3 DEF Proceeds, HistoryKept
<1>5. CASE LookupSessionUser(t) /\ lt[t].user \notin users
  <2> DEFINE s == Answer(lt[t], "login_page")
  <2>1. lt' = [lt EXCEPT ![t] = s] /\ lt[t].pc = "lookup"
    BY <1>5 DEF LookupSessionUser
  <2>2. "login_page" \in Answers
    BY DEF Answers
  <2>3. /\ s \in LoginStates /\ s.pc = "done" /\ s.stamp = lt[t].stamp
        /\ s.req = lt[t].req /\ s.user = lt[t].user /\ s.sid = lt[t].sid
        /\ s.answer = "login_page" /\ s.ssoUser = lt[t].ssoUser
        /\ s.idle = lt[t].idle /\ s.loggedOut = lt[t].loggedOut
    BY <1>0, <2>2, AnswerFields
  <2> HIDE DEF s
  <2>4. /\ Becomes(t, s.pc, s.req, s.user, s.sid, s.answer, s.ssoUser)
        /\ lt'[t] = s
    BY <1>0, <2>1, <2>3, Writes
  <2> QED
    BY <1>5, <2>1, <2>3, <2>4 DEF Proceeds, HistoryKept
<1> QED
  BY <1>2, <1>3, <1>4, <1>5

(* Session sid of request t is its own: new, or known from before.         *)
OwnSession(t, sid) ==
    /\ sid \in SessionIDs
    /\ \/ /\ lt[t].pc = "create" /\ sid \notin DOMAIN opened
          /\ opened' = Put(opened, sid, lt[t].user)
          /\ \A s \in DOMAIN sessions' : s \in DOMAIN sessions \/ s = sid
       \/ /\ lt[t].pc = "save" /\ sid = lt[t].sid
          /\ opened' = opened /\ sessions' = sessions

(* Request t opens session sid and goes on to save a code.                 *)
Opens(t, sid) ==
    /\ OwnSession(t, sid) /\ lt[t].pc = "create"
    /\ HistoryKept(t) /\ cookie' = cookie
    /\ Becomes(t, "stamp", lt[t].req, lt[t].user, sid, "none", lt[t].ssoUser)

(* Request t is answered with a code or tokens, and the browser gets the   *)
(* cookie with a login's answer; or building the redirect panics.          *)
Finishes(t, sid, answer) ==
    /\ OwnSession(t, sid)
    /\ HistoryKept(t)
    /\ Becomes(t, "done", lt[t].req, lt[t].user, sid, answer, lt[t].ssoUser)
    /\ \/ answer = "panic" /\ cookie' = cookie
       \/ /\ answer \in {"code", "tokens"} /\ ~HasCredentials(lt[t].req)
          /\ cookie' = cookie
       \/ /\ answer \in {"code", "tokens"} /\ HasCredentials(lt[t].req)
          /\ SetCookie(t, sid)

LEMMA RedirectMoves ==
    ASSUME LFInv, NEW t \in Threads, NEW s \in LoginStates, s.stamp <= now,
           s.req = lt[t].req, s.user = lt[t].user, s.ssoUser = lt[t].ssoUser,
           s.idle = lt[t].idle, s.loggedOut = lt[t].loggedOut,
           OwnSession(t, s.sid), NEW answer \in {"code", "tokens"},
           Redirect(t, s, answer)
    PROVE  \E a \in {"panic", "code", "tokens"} : Finishes(t, s.sid, a)
<1>1. ASSUME NEW a \in {"panic", "code", "tokens"},
             lt' = [lt EXCEPT ![t] = Answer(s, a)]
      PROVE  /\ HistoryKept(t)
             /\ Becomes(t, "done", lt[t].req, lt[t].user, s.sid, a, lt[t].ssoUser)
  <2> DEFINE n == Answer(s, a)
  <2>0. a \in Answers
    BY DEF Answers
  <2>1. /\ n \in LoginStates /\ n.pc = "done" /\ n.stamp = s.stamp
        /\ n.req = lt[t].req /\ n.user = lt[t].user /\ n.sid = s.sid
        /\ n.answer = a /\ n.ssoUser = lt[t].ssoUser
        /\ n.idle = lt[t].idle /\ n.loggedOut = lt[t].loggedOut
    BY <2>0, AnswerFields
  <2>2. lt \in [Threads -> LoginStates] /\ lt' = [lt EXCEPT ![t] = n]
    BY <1>1, LFBasics
  <2> HIDE DEF n
  <2>3. /\ Becomes(t, n.pc, n.req, n.user, n.sid, n.answer, n.ssoUser)
        /\ lt'[t] = n
    BY <2>1, <2>2, Writes
  <2> QED
    BY <2>1, <2>3 DEF HistoryKept
<1>2. CASE s.req.uri \in BadURIs
  BY <1>1, <1>2 DEF Redirect, Finishes
<1>3. CASE s.req.uri \notin BadURIs
  BY <1>1, <1>3 DEF Redirect, Finishes
<1> QED
  BY <1>2, <1>3

LEMMA CreateMoves ==
    ASSUME LFInv, NEW t \in Threads, CreateSession(t)
    PROVE  \E sid \in SessionIDs :
             \/ Opens(t, sid)
             \/ \E a \in {"panic", "code", "tokens"} : Finishes(t, sid, a)
<1>0. /\ lt \in [Threads -> LoginStates] /\ lt[t] \in LoginStates
      /\ lt[t].pc = "create" /\ lt[t].answer = "none" /\ lt[t].stamp <= now
  BY LFBasics DEF LoginInPlace, CreateSession
<1>1. PICK sid \in SessionIDs \ DOMAIN opened :
        /\ Create(sid, lt[t].user, lt[t].stamp)
        /\ IF lt[t].req.response = "token"
           THEN Redirect(t, [lt[t] EXCEPT !.sid = sid], "tokens")
           ELSE /\ lt' = [lt EXCEPT ![t].pc = "stamp", ![t].sid = sid]
                /\ UNCHANGED cookie
  BY DEF CreateSession
<1>2. OwnSession(t, sid)
  <2>1. /\ opened' = Put(opened, sid, lt[t].user)
        /\ \A s \in DOMAIN sessions' : s \in DOMAIN sessions \/ s = sid
    BY <1>1 DEF Create, Put, CleanExpired, Without, Restrict
  <2> QED
    BY <1>0, <1>1, <2>1 DEF OwnSession
<1>3. CASE lt[t].req.response = "token"
  <2> DEFINE s == [lt[t] EXCEPT !.sid = sid]
  <2>1. /\ s \in LoginStates /\ s.stamp <= now /\ s.sid = sid
        /\ s.req = lt[t].req /\ s.user = lt[t].user /\ s.ssoUser = lt[t].ssoUser
        /\ s.idle = lt[t].idle /\ s.loggedOut = lt[t].loggedOut
    BY <1>0 DEF LoginStates
  <2>2. Redirect(t, s, "tokens")
    BY <1>1, <1>3
  <2> HIDE DEF s
  <2>3. \E a \in {"panic", "code", "tokens"} : Finishes(t, s.sid, a)
    BY <1>2, <2>1, <2>2, RedirectMoves
  <2> QED
    BY <2>1, <2>3
<1>4. CASE lt[t].req.response # "token"
  <2> DEFINE s == [lt[t] EXCEPT !.pc = "stamp", !.sid = sid]
  <2>1. lt' = [lt EXCEPT ![t] = s] /\ cookie' = cookie
    BY <1>0, <1>1, <1>4
  <2>2. /\ s \in LoginStates /\ s.pc = "stamp" /\ s.stamp = lt[t].stamp
        /\ s.sid = sid /\ s.answer = "none"
        /\ s.req = lt[t].req /\ s.user = lt[t].user /\ s.ssoUser = lt[t].ssoUser
        /\ s.idle = lt[t].idle /\ s.loggedOut = lt[t].loggedOut
    BY <1>0 DEF LoginStates
  <2> HIDE DEF s
  <2>3. /\ Becomes(t, s.pc, s.req, s.user, s.sid, s.answer, s.ssoUser)
        /\ lt'[t] = s
    BY <1>0, <2>1, <2>2, Writes
  <2> QED
    BY <1>0, <1>2, <2>1, <2>2, <2>3 DEF Opens, HistoryKept
<1> QED
  BY <1>3, <1>4

LEMMA IssueCodeMoves ==
    ASSUME LFInv, NEW t \in Threads, IssueCode(t)
    PROVE  \E a \in {"panic", "code", "tokens"} : Finishes(t, lt[t].sid, a)
<1>1. lt[t].pc = "save" /\ Redirect(t, lt[t], "code") /\ sessions' = sessions
      /\ opened' = opened
  BY DEF IssueCode, sessionData
<1>2. lt[t] \in LoginStates /\ LoginInPlace(t)
  BY LFBasics
<1>3. lt[t].sid \in SessionIDs /\ lt[t].stamp <= now
  BY <1>1, <1>2 DEF LoginInPlace, LoginStates
<1>4. OwnSession(t, lt[t].sid)
  BY <1>1, <1>3 DEF OwnSession
<1> QED
  BY <1>1, <1>2, <1>3, <1>4, RedirectMoves

(* A restart answers nobody and keeps what the answered were told.         *)
LEMMA RestartMoves ==
    ASSUME LFInv, Restart
    PROVE  /\ lt' \in [Threads -> LoginStates]
           /\ \A t \in Threads :
                \/ lt[t].pc \in {"idle", "done"} /\ lt'[t] = lt[t]
                \/ /\ lt[t].pc \notin {"idle", "done"}
                   /\ lt'[t].pc = "done" /\ lt'[t].answer = "lost"
                   /\ lt'[t].req = lt[t].req /\ lt'[t].user = lt[t].user
                   /\ lt'[t].sid = lt[t].sid /\ lt'[t].ssoUser = lt[t].ssoUser
                   /\ lt'[t].stamp = lt[t].stamp /\ HistoryKept(t)
<1>0. "lost" \in Answers
  BY DEF Answers
<1>1. ASSUME NEW t \in Threads, lt[t].pc \in {"idle", "done"}
      PROVE  lt'[t] = lt[t]
  BY <1>1 DEF Restart
<1>2. ASSUME NEW t \in Threads, lt[t].pc \notin {"idle", "done"}
      PROVE  /\ lt'[t] \in LoginStates
             /\ lt'[t].pc = "done" /\ lt'[t].answer = "lost"
             /\ lt'[t].req = lt[t].req /\ lt'[t].user = lt[t].user
             /\ lt'[t].sid = lt[t].sid /\ lt'[t].ssoUser = lt[t].ssoUser
             /\ lt'[t].stamp = lt[t].stamp /\ HistoryKept(t)
  <2>1. lt'[t] = Answer(lt[t], "lost")
    BY <1>2 DEF Restart
  <2>2. lt[t] \in LoginStates
    BY LFBasics
  <2> QED
    BY <1>0, <2>1, <2>2, AnswerFields DEF HistoryKept
<1>3. lt' = [t \in Threads |-> lt'[t]]
  BY DEF Restart
<1>4. \A t \in Threads : lt'[t] \in LoginStates
  BY <1>1, <1>2, LFBasics
<1> QED
  BY <1>1, <1>2, <1>3, <1>4

(* The code flow shows the login page only to a request without a session. *)
PageJustified(r, answer) ==
    /\ r.path = "authorize" /\ r.response = "code" /\ r.given = "none"
    /\ answer = "login_page"
    => SsoUser(r) = NoUser

(* The ways in which a step moves the requests.                            *)
Arrival(t) ==
    \E r \in Requests :
        \/ \E answer : Refuses(t, r, answer) /\ PageJustified(r, answer)
        \/ Begins(t, r)
        \/ \E sid : SignsOn(t, r, sid)
Onward(t) == \E pc, answer : Proceeds(t, pc, answer)

LEMMA LoginMoves ==
    ASSUME LFInv, [LFNext]_lfVars
    PROVE  \/ Restart
           \/ \E b \in Browsers : Logout(b)
           \/ UNCHANGED <<lt, sessions, opened, cookie>>
           \/ /\ UNCHANGED <<opened, cookie, now>>
              /\ DOMAIN sessions' \subseteq DOMAIN sessions
              /\ \E t \in Threads : Arrival(t) \/ Onward(t)
           \/ \E t \in Threads, sid \in SessionIDs :
                /\ now' = now
                /\ \/ Opens(t, sid)
                   \/ \E a \in {"panic", "code", "tokens"} : Finishes(t, sid, a)
<1> DEFINE Frame == UNCHANGED <<opened, cookie, now, sessions>>
           Same == DOMAIN sessions' \subseteq DOMAIN sessions
<1>0. Answers \ {"none"} = {"code", "tokens", "login_page", "login_required",
            "access_denied", "invalid_request", "unsupported_response_type",
            "panic", "lost"}
  BY DEF Answers
<1>1. ASSUME NEW t \in Threads, NEW r \in Requests, AuthorizeRefused(t, r)
      PROVE  Arrival(t) /\ Frame
  <2>1. PICK answer \in {"invalid_request", "unsupported_response_type"} :
          Respond(t, r, answer) /\ lt[t].pc = "idle"
    BY <1>1 DEF AuthorizeRefused, Arrives
  <2>2. Refuses(t, r, answer)
    BY <1>0, <2>1, RespondMoves
  <2>3. Frame
    BY <1>1 DEF AuthorizeRefused, sessionData
  <2> QED
    BY <2>2, <2>3 DEF Arrival, PageJustified
<1>2. ASSUME NEW t \in Threads, NEW r \in Requests, AuthorizeImplicit(t, r)
      PROVE  Arrival(t) /\ Frame
  <2>1. PICK answer \in {"login_page", "tokens", "access_denied"} :
          Respond(t, r, answer) /\ lt[t].pc = "idle" /\ r.response = "token"
    BY <1>2 DEF AuthorizeImplicit, Arrives
  <2>2. Refuses(t, r, answer)
    BY <1>0, <2>1, RespondMoves
  <2>3. Frame
    BY <1>2 DEF AuthorizeImplicit, sessionData
  <2> QED
    BY <2>1, <2>2, <2>3 DEF Arrival, PageJustified
<1>3. ASSUME NEW t \in Threads, NEW r \in Requests, AuthorizeCredentials(t, r)
      PROVE  Arrival(t) /\ Frame
  <2>0. /\ lt[t].pc = "idle" /\ HasCredentials(r)
        /\ r.uri # NoURI /\ r.uri \notin BadURIs
    BY <1>3 DEF AuthorizeCredentials, Arrives, AuthorizeAllowed
  <2>f. Frame
    BY <1>3 DEF AuthorizeCredentials, sessionData
  <2>1. CASE Respond(t, r, "access_denied")
    <3>1. Refuses(t, r, "access_denied")
      BY <1>0, <2>0, <2>1, RespondMoves
    <3>2. PageJustified(r, "access_denied")
      BY DEF PageJustified
    <3> QED
      BY <2>f, <3>1, <3>2 DEF Arrival
  <2>2. CASE /\ GoodCredentials(r)
             /\ lt' = [lt EXCEPT ![t] = [Arrived(r) EXCEPT !.pc = "login",
                                                           !.user = r.user]]
    <3>1. Begins(t, r)
      BY <2>0, <2>2, BeginMoves
    <3> QED
      BY <2>f, <3>1 DEF Arrival
  <2> QED
    BY <1>3, <2>1, <2>2 DEF AuthorizeCredentials
<1>4. ASSUME NEW t \in Threads, NEW r \in Requests, AuthorizePromptNone(t, r)
      PROVE  Arrival(t) /\ Frame
  <2>1. Respond(t, r, "login_required") /\ lt[t].pc = "idle" /\ Frame
    BY <1>4 DEF AuthorizePromptNone, Arrives, sessionData
  <2>2. Refuses(t, r, "login_required")
    BY <1>0, <2>1, RespondMoves
  <2> QED
    BY <2>1, <2>2 DEF Arrival, PageJustified
<1>5. ASSUME NEW t \in Threads, NEW r \in Requests, LoginPost(t, r)
      PROVE  Arrival(t) /\ Frame
  <2>0. lt[t].pc = "idle" /\ Frame /\ r.path = "login"
    BY <1>5 DEF LoginPost, Arrives, sessionData
  <2>1. ASSUME NEW answer \in {"invalid_request", "access_denied"},
               Respond(t, r, answer)
        PROVE  Arrival(t)
    <3>1. Refuses(t, r, answer)
      BY <1>0, <2>0, <2>1, RespondMoves
    <3> QED
      BY <3>1 DEF Arrival, PageJustified
  <2>2. CASE /\ GoodCredentials(r) /\ HasCredentials(r) /\ r.uri # NoURI
             /\ lt' = [lt EXCEPT ![t] = [Arrived(r) EXCEPT !.pc = "login",
                                                           !.user = r.user]]
    <3>1. Begins(t, r)
      BY <2>0, <2>2, BeginMoves
    <3> QED
      BY <2>0, <3>1 DEF Arrival
  <2> QED
    BY <1>5, <2>0, <2>1, <2>2 DEF LoginPost
<1>6. ASSUME NEW t \in Threads, NEW r \in Requests, AuthorizeCookie(t, r)
      PROVE  Arrival(t) /\ UNCHANGED <<opened, cookie, now>> /\ Same
  <2> DEFINE sid == CookieSent(r.browser)
  <2>0. lt[t].pc = "idle" /\ ~HasCredentials(r) /\ UNCHANGED <<cookie, now>>
        /\ r.uri # NoURI /\ r.uri \notin BadURIs
    BY <1>6 DEF AuthorizeCookie, Arrives, AuthorizeAllowed
  <2>1. CASE /\ r.given = "one" \/ sid = NoSession
             /\ Respond(t, r, "login_page")
             /\ UNCHANGED sessionData
    <3>1. Refuses(t, r, "login_page")
      BY <1>0, <2>0, <2>1, RespondMoves
    <3>2. PageJustified(r, "login_page")
      BY <2>1 DEF PageJustified, SsoUser
    <3>3. opened' = opened /\ sessions' = sessions
      BY <2>1 DEF sessionData
    <3> QED
      BY <2>0, <3>1, <3>2, <3>3 DEF Arrival
  <2>2. CASE /\ sid # NoSession /\ Get(sid) /\ ~SessionLive(sid)
             /\ Respond(t, r, "login_page")
    <3>1. Refuses(t, r, "login_page")
      BY <1>0, <2>0, <2>2, RespondMoves
    <3>2. PageJustified(r, "login_page")
      BY <2>2 DEF PageJustified, SsoUser
    <3>3. opened' = opened /\ Same
      BY <2>2 DEF Get, CleanExpired, Without, Restrict
    <3> QED
      BY <2>0, <3>1, <3>2, <3>3 DEF Arrival
  <2>3. CASE /\ sid # NoSession /\ Get(sid) /\ SessionLive(sid)
             /\ lt' = [lt EXCEPT ![t] =
                         [Arrived(r) EXCEPT !.pc = "lookup", !.sid = sid,
                                            !.user = sessions[sid].user,
                                            !.idle = now - lastUse[sid],
                                            !.loggedOut = sid \in ended]]
    <3>1. SignsOn(t, r, sid)
      BY <2>0, <2>3, SignOnMoves
    <3>2. opened' = opened /\ Same
      BY <2>3 DEF Get, CleanExpired, Without, Restrict
    <3> QED
      BY <2>0, <3>1, <3>2 DEF Arrival
  <2> QED
    BY <1>6, <2>1, <2>2, <2>3 DEF AuthorizeCookie, Respond
<1>7. ASSUME NEW t \in Threads,
             LookupSessionUser(t) \/ SessionStamp(t) \/ CodeStamp(t)
      PROVE  Onward(t) /\ Frame
  <2>1. Frame
    BY <1>7 DEF LookupSessionUser, SessionStamp, CodeStamp, sessionData
  <2> QED
    BY <1>7, <2>1, ProceedMoves DEF Onward
<1>8. ASSUME NEW t \in Threads, CreateSession(t) \/ IssueCode(t)
      PROVE  \E sid \in SessionIDs :
               /\ now' = now
               /\ \/ Opens(t, sid)
                  \/ \E a \in {"panic", "code", "tokens"} : Finishes(t, sid, a)
  <2>1. now' = now
    BY <1>8 DEF CreateSession, Create, IssueCode, SaveCode
  <2>2. CASE CreateSession(t)
    BY <2>1, <2>2, CreateMoves
  <2>3. CASE IssueCode(t)
    <3>1. PICK a \in {"panic", "code", "tokens"} : Finishes(t, lt[t].sid, a)
      BY <2>3, IssueCodeMoves
    <3>2. lt[t].sid \in SessionIDs
      BY <3>1 DEF Finishes, OwnSession
    <3> QED
      BY <2>1, <3>1, <3>2
  <2> QED
    BY <1>8, <2>2, <2>3
<1>9. CASE \/ \E u \in users : DeleteUser(u)
           \/ ClockTick
           \/ UNCHANGED lfVars
  BY <1>9 DEF DeleteUser, ClockTick, lfVars, sessionData
<1> QED
  BY <1>1, <1>2, <1>3, <1>4, <1>5, <1>6, <1>7, <1>8, <1>9 DEF LFNext, Begin, Step

-----------------------------------------------------------------------------
(* The stores under the logins.                                            *)

LEMMA GrantMoves ==
    ASSUME LFInv, [LFNext]_lfVars
    PROVE  [GSNext]_gsVars \/ Restart
<1>1. ASSUME NEW t \in Threads, IssueCode(t) PROVE GSNext
  <2> DEFINE r == lt[t].req
             ac == [user |-> lt[t].user, uri |-> r.uri, scope |-> r.scope,
                    client |-> IF r.path = "authorize" THEN Effective(r.client)
                               ELSE r.client]
  <2>1. /\ lt[t].pc = "save" /\ LoginInPlace(t) /\ lt[t] \in LoginStates
        /\ now \in Nat
    BY <1>1, LFBasics DEF IssueCode
  <2>2. /\ r \in Requests /\ lt[t].user \in Users /\ r.uri # NoURI
        /\ lt[t].stamp \in 0..now
    BY <2>1 DEF LoginInPlace, LoginStates
  <2>3. /\ r.uri \in URIs /\ r.scope \in SUBSET Scopes
        /\ r.client \in ClientIDs /\ Effective(r.client) \in ClientIDs
    BY <2>2, LoginAssumption DEF Effective, ClientIDs
  <2>4. ac \in AuthCodes
    BY <2>2, <2>3, LoginAssumption
  <2>5. PICK c \in Codes \ used : SaveCode(c, ac, lt[t].stamp)
    BY <1>1 DEF IssueCode
  <2> HIDE DEF ac, r
  <2> QED
    BY <2>2, <2>4, <2>5 DEF GSNext
<1>2. CASE ClockTick
  BY <1>2 DEF ClockTick, GSTick, GSNext, grantData
<1>3. ASSUME NEW t \in Threads, CreateSession(t) PROVE UNCHANGED gsVars
  BY <1>3 DEF CreateSession, grantData, gsVars
<1>4. ASSUME NEW b \in Browsers, Logout(b) PROVE UNCHANGED gsVars
  BY <1>4 DEF Logout, Revoke, grantData, gsVars
<1>5. ASSUME NEW t \in Threads, Begin(t) PROVE UNCHANGED gsVars
  BY <1>5 DEF Begin, AuthorizeRefused, AuthorizeImplicit, AuthorizeCredentials,
              AuthorizePromptNone, AuthorizeCookie, LoginPost, grantData, gsVars
<1>6. ASSUME NEW t \in Threads,
             LookupSessionUser(t) \/ SessionStamp(t) \/ CodeStamp(t)
      PROVE  UNCHANGED gsVars
  BY <1>6 DEF LookupSessionUser, SessionStamp, CodeStamp, grantData, gsVars
<1>7. CASE (\E u \in users : DeleteUser(u)) \/ UNCHANGED lfVars
  BY <1>7 DEF DeleteUser, lfVars, grantData, gsVars
<1> QED
  BY <1>1, <1>2, <1>3, <1>4, <1>5, <1>6, <1>7 DEF LFNext, Step

LEMMA SessionMoves ==
    ASSUME LFInv, [LFNext]_lfVars
    PROVE  [SSNext]_ssVars \/ Restart
<1>1. ASSUME NEW t \in Threads, CreateSession(t) PROVE SSNext
  <2>1. /\ lt[t].pc = "create" /\ LoginInPlace(t) /\ lt[t] \in LoginStates
        /\ now \in Nat
    BY <1>1, LFBasics DEF CreateSession
  <2>2. lt[t].user \in Users /\ lt[t].stamp \in 0..now
    BY <2>1 DEF LoginInPlace, LoginStates
  <2> QED
    BY <1>1, <2>2 DEF CreateSession, SSNext
<1>2. CASE ClockTick
  BY <1>2 DEF ClockTick, SSTick, SSNext, sessionData
<1>3. ASSUME NEW b \in Browsers PROVE CookieSent(b) \in SessionIDs \cup {NoSession}
  BY LFBasics DEF CookieSent
<1>4. ASSUME NEW b \in Browsers, Logout(b) PROVE [SSNext]_ssVars
  BY <1>3, <1>4 DEF Logout, SSNext, ssVars, sessionData
<1>5. ASSUME NEW t \in Threads, NEW r \in Requests, AuthorizeCookie(t, r)
      PROVE  [SSNext]_ssVars
  <2>1. r.browser \in Browsers
    BY LFBasics
  <2> QED
    BY <1>3, <1>5, <2>1 DEF AuthorizeCookie, SSNext, ssVars, sessionData
<1>6. ASSUME NEW t \in Threads, IssueCode(t) PROVE UNCHANGED ssVars
  BY <1>6 DEF IssueCode, SaveCode, sessionData, ssVars
<1>7. ASSUME NEW t \in Threads, NEW r \in Requests,
             \/ AuthorizeRefused(t, r) \/ AuthorizeImplicit(t, r)
             \/ AuthorizeCredentials(t, r) \/ AuthorizePromptNone(t, r)
             \/ LoginPost(t, r)
      PROVE  UNCHANGED ssVars
  BY <1>7 DEF AuthorizeRefused, AuthorizeImplicit, AuthorizeCredentials,
              AuthorizePromptNone, LoginPost, sessionData, ssVars
<1>8. ASSUME NEW t \in Threads,
             LookupSessionUser(t) \/ SessionStamp(t) \/ CodeStamp(t)
      PROVE  UNCHANGED ssVars
  BY <1>8 DEF LookupSessionUser, SessionStamp, CodeStamp, sessionData, ssVars
<1>9. CASE (\E u \in users : DeleteUser(u)) \/ UNCHANGED lfVars
  BY <1>9 DEF DeleteUser, lfVars, sessionData, ssVars
<1> QED
  BY <1>1, <1>2, <1>4, <1>5, <1>6, <1>7, <1>8, <1>9 DEF LFNext, Begin, Step

LEMMA StoresKept ==
    ASSUME LFInv, [LFNext]_lfVars
    PROVE  /\ GSTypeOK' /\ SSTypeOK' /\ StoredIsFresh'
           /\ now \in Nat /\ now' \in Nat /\ now <= now'
<1>0. GSTypeOK /\ SSSound /\ now \in Nat
  BY LFBasics
<1>1. CASE Restart
  <2>1. StoreRestart /\ sessions' = << >> /\ UNCHANGED <<opened, lastUse, ended>>
    BY <1>1 DEF Restart
  <2>2. GSTypeOK' /\ now' = now
    BY <1>0, <2>1 DEF StoreRestart, GSTypeOK
  <2>3. SSTypeOK' /\ StoredIsFresh'
    BY <1>0, <2>1, <2>2 DEF SSSound, SSTypeOK, StoredIsFresh
  <2> QED
    BY <1>0, <2>2, <2>3
<1>2. CASE [GSNext]_gsVars /\ [SSNext]_ssVars
  <2>1. GSTypeOK' /\ now <= now'
    BY <1>0, <1>2, TypeStep, HistoriesGrow
  <2>2. SSSound'
    BY <1>0, <1>2, SSSoundStep
  <2> QED
    BY <1>0, <2>1, <2>2 DEF SSSound, SSTypeOK
<1> QED
  BY <1>1, <1>2, GrantMoves, SessionMoves

-----------------------------------------------------------------------------
(* The requests stay in place.                                             *)

LEMMA OpenedGrows ==
    ASSUME LFInv, [LFNext]_lfVars
    PROVE  \A s \in DOMAIN opened : s \in DOMAIN opened' /\ opened'[s] = opened[s]
<1>1. CASE Restart
  BY <1>1 DEF Restart
<1>2. ASSUME NEW b \in Browsers, Logout(b) PROVE opened' = opened
  BY <1>2 DEF Logout, Revoke, sessionData
<1>3. ASSUME NEW t \in Threads, NEW sid \in SessionIDs, OwnSession(t, sid)
      PROVE  \A s \in DOMAIN opened :
               s \in DOMAIN opened' /\ opened'[s] = opened[s]
  BY <1>3 DEF OwnSession, Put
<1> QED
  BY <1>1, <1>2, <1>3, LoginMoves DEF Opens, Finishes

(* The fields of the request that moves, for each way of moving.           *)
LEMMA InPlaceFrame ==
    ASSUME LFInv, [LFNext]_lfVars, NEW t \in Threads, lt'[t] = lt[t]
    PROVE  LoginInPlace(t)'
<1>1. LoginInPlace(t) /\ lt[t].stamp \in Nat /\ lt[t] \in LoginStates
  BY LFBasics DEF LoginStates
<1>2. lt'[t].stamp <= now'
  BY <1>1, StoresKept DEF LoginInPlace
<1> QED
  BY <1>1, <1>2, OpenedGrows DEF LoginInPlace

LEMMA MovedInPlace ==
    ASSUME LFInv, [LFNext]_lfVars, NEW t \in Threads
    PROVE  /\ Arrival(t) /\ UNCHANGED opened => LoginInPlace(t)'
           /\ Onward(t) /\ UNCHANGED opened => LoginInPlace(t)'
           /\ \A sid \in SessionIDs : Opens(t, sid) => LoginInPlace(t)'
           /\ \A sid \in SessionIDs : \A a \in {"panic", "code", "tokens"} :
                Finishes(t, sid, a) => LoginInPlace(t)'
<1>0. /\ LoginInPlace(t) /\ lt[t] \in LoginStates /\ SSSound
      /\ now \in Nat /\ now' \in Nat /\ now <= now' /\ NoUser \notin Users
      /\ NoSession \notin SessionIDs
  BY LFBasics, StoresKept, UserAssumption, LoginAssumption
<1>1. ASSUME NEW pc, NEW req, NEW user, NEW sid, NEW answer, NEW sso,
             Becomes(t, pc, req, user, sid, answer, sso)
      PROVE  lt'[t].stamp <= now'
  <2>1. lt'[t].stamp <= now /\ lt'[t].stamp \in Nat
    BY <1>1 DEF Becomes, LoginStates
  <2> QED
    BY <1>0, <2>1
<1>2. ASSUME NEW r \in Requests, NEW answer, Refuses(t, r, answer)
      PROVE  LoginInPlace(t)'
  <2>1. lt'[t].stamp <= now' /\ answer # "none"
    BY <1>1, <1>2 DEF Refuses
  <2> QED
    BY <1>2, <2>1 DEF Refuses, Becomes, LoginInPlace
<1>3. ASSUME NEW r \in Requests, Begins(t, r) PROVE LoginInPlace(t)'
  <2>1. lt'[t].stamp <= now'
    BY <1>1, <1>3 DEF Begins
  <2> QED
    BY <1>3, <2>1 DEF Begins, Becomes, LoginInPlace, Authenticated, HasCredentials
<1>4. ASSUME NEW r \in Requests, NEW sid, SignsOn(t, r, sid), UNCHANGED opened
      PROVE  LoginInPlace(t)'
  <2>1. lt'[t].stamp <= now'
    BY <1>1, <1>4 DEF SignsOn
  <2>2. /\ sid \in DOMAIN sessions /\ sessions[sid].user \in Users
        /\ sid \in DOMAIN opened /\ opened[sid] = sessions[sid].user
    BY <1>0, <1>4 DEF SignsOn, SessionLive, SSSound, SSTypeOK, StoredIsFresh
  <2>3. SsoUser(r) \in {NoUser, sessions[sid].user}
    BY <1>4 DEF SignsOn, SsoUser
  <2> QED
    BY <1>4, <2>1, <2>2, <2>3 DEF SignsOn, Becomes, LoginInPlace
<1>5. ASSUME NEW pc, NEW answer, Proceeds(t, pc, answer), UNCHANGED opened
      PROVE  LoginInPlace(t)'
  <2>1. lt'[t].stamp <= now'
    BY <1>1, <1>5 DEF Proceeds
  <2>2. CASE lt[t].pc = "lookup"
    BY <1>0, <1>5, <2>1, <2>2 DEF Proceeds, Becomes, LoginInPlace, Authenticated
  <2>3. CASE lt[t].pc = "login"
    BY <1>0, <1>5, <2>1, <2>3 DEF Proceeds, Becomes, LoginInPlace, Authenticated
  <2>4. CASE lt[t].pc = "stamp"
    BY <1>0, <1>5, <2>1, <2>4 DEF Proceeds, Becomes, LoginInPlace, Authenticated
  <2> QED
    BY <1>5, <2>2, <2>3, <2>4 DEF Proceeds
<1>6. ASSUME NEW sid \in SessionIDs, OwnSession(t, sid)
      PROVE  /\ sid # NoSession /\ sid \in DOMAIN opened' /\ opened'[sid] = lt[t].user
             /\ lt[t].req \in Requests /\ lt[t].user \in Users
             /\ lt[t].req.uri # NoURI
             /\ lt[t].req.path = "authorize" => lt[t].req.uri \notin BadURIs
             /\ HasCredentials(lt[t].req) => Authenticated(lt[t])
             /\ lt[t].pc \in {"create", "save"}
  <2>1. CASE lt[t].pc = "create" /\ opened' = Put(opened, sid, lt[t].user)
    BY <1>0, <2>1 DEF LoginInPlace, Put
  <2>2. CASE lt[t].pc = "save" /\ sid = lt[t].sid /\ opened' = opened
    BY <1>0, <2>2 DEF LoginInPlace
  <2> QED
    BY <1>6, <2>1, <2>2 DEF OwnSession
<1>7. ASSUME NEW sid \in SessionIDs, Opens(t, sid) PROVE LoginInPlace(t)'
  <2>1. lt'[t].stamp <= now' /\ OwnSession(t, sid)
    BY <1>1, <1>7 DEF Opens
  <2> QED
    BY <1>6, <1>7, <2>1 DEF Opens, Becomes, LoginInPlace, Authenticated
<1>8. ASSUME NEW sid \in SessionIDs, NEW a \in {"panic", "code", "tokens"},
             Finishes(t, sid, a)
      PROVE  LoginInPlace(t)'
  <2>1. lt'[t].stamp <= now' /\ OwnSession(t, sid)
    BY <1>1, <1>8 DEF Finishes
  <2> QED
    BY <1>6, <1>8, <2>1 DEF Finishes, Becomes, LoginInPlace, Authenticated
<1> QED
  BY <1>2, <1>3, <1>4, <1>5, <1>7, <1>8 DEF Arrival, Onward

(* Whoever moves, the others do not.                                       *)
LEMMA OthersStay ==
    ASSUME NEW t \in Threads,
           \/ Arrival(t) \/ Onward(t)
           \/ \E sid \in SessionIDs :
                Opens(t, sid) \/ \E a \in {"panic", "code", "tokens"} : Finishes(t, sid, a)
    PROVE  /\ lt' \in [Threads -> LoginStates]
           /\ \A o \in Threads \ {t} : lt'[o] = lt[o]
BY DEF Arrival, Onward, Refuses, Begins, SignsOn, Proceeds, Opens, Finishes, Becomes

LEMMA LoginsInPlaceStep ==
    ASSUME LFInv, [LFNext]_lfVars
    PROVE  lt' \in [Threads -> LoginStates] /\ LoginsInPlace'
<1> DEFINE Goal == lt' \in [Threads -> LoginStates] /\ LoginsInPlace'
<1>1. ASSUME lt' = lt PROVE Goal
  BY <1>1, InPlaceFrame, LFBasics DEF LoginsInPlace
<1>2. ASSUME Restart PROVE Goal
  <2>1. ASSUME NEW t \in Threads, lt[t].pc \notin {"idle", "done"}
        PROVE  LoginInPlace(t)'
    <3>1. LoginInPlace(t) /\ now' = now /\ opened' = opened
      BY <1>2, LFBasics DEF Restart, StoreRestart
    <3> QED
      BY <1>2, <2>1, <3>1, RestartMoves DEF LoginInPlace, Authenticated
  <2> QED
    BY <1>2, <2>1, RestartMoves, InPlaceFrame DEF LoginsInPlace
<1>3. ASSUME NEW t \in Threads, LoginInPlace(t)',
             lt' \in [Threads -> LoginStates],
             \A o \in Threads \ {t} : lt'[o] = lt[o]
      PROVE  Goal
  BY <1>3, InPlaceFrame DEF LoginsInPlace
<1>4. ASSUME NEW b \in Browsers, Logout(b) PROVE lt' = lt
  BY <1>4 DEF Logout
<1> HIDE DEF Goal
<1>5. Goal
  BY <1>1, <1>2, <1>3, <1>4, LoginMoves, MovedInPlace, OthersStay
<1> QED
  BY <1>5 DEF Goal

(* An answered request never changes again.                                *)
LEMMA DoneIsFinal ==
    ASSUME LFInv, [LFNext]_lfVars, NEW t \in Threads, lt[t].pc = "done"
    PROVE  lt'[t] = lt[t]
<1>1. CASE Restart
  BY <1>1, RestartMoves
<1>2. ASSUME NEW b \in Browsers, Logout(b) PROVE lt' = lt
  BY <1>2 DEF Logout
<1>3. ~Arrival(t) /\ ~Onward(t)
  BY DEF Arrival, Onward, Refuses, Begins, SignsOn, Proceeds
<1>4. ASSUME NEW sid PROVE ~OwnSession(t, sid)
  BY DEF OwnSession
<1> QED
  BY <1>1, <1>2, <1>3, <1>4, LoginMoves, OthersStay DEF Opens, Finishes

-----------------------------------------------------------------------------
(* Single sign-on.                                                         *)

(* What was earned stays earned.                                           *)
LEMMA EarnedStays ==
    ASSUME LFInv, [LFNext]_lfVars, NEW sid, Earned(sid)
    PROVE  Earned(sid)'
<1>1. PICK o \in Threads :
        lt[o].sid = sid /\ Authenticated(lt[o]) /\ Served(lt[o])
  BY DEF Earned
<1>2. lt'[o] = lt[o]
  BY <1>1, DoneIsFinal DEF Served
<1> QED
  BY <1>1, <1>2 DEF Earned, Served, Authenticated

(* How the cookies change: a logout removes one, an answered login sets it.*)
LEMMA CookieMoves ==
    ASSUME LFInv, [LFNext]_lfVars
    PROVE  \/ cookie' = cookie
           \/ \E b \in Browsers : /\ Logout(b)
                                  /\ cookie' = [cookie EXCEPT ![b] = NoCookie]
           \/ \E t \in Threads, sid \in SessionIDs, a \in {"code", "tokens"} :
                /\ Finishes(t, sid, a) /\ HasCredentials(lt[t].req)
                /\ lt[t].req \in Requests /\ lt[t].req.browser \in Browsers
                /\ cookie' = [cookie EXCEPT ![lt[t].req.browser] =
                                [sid |-> sid, until |-> now + CookieAge]]
<1>1. CASE Restart
  BY <1>1 DEF Restart
<1>2. ASSUME NEW b \in Browsers, Logout(b)
      PROVE  cookie' = [cookie EXCEPT ![b] = NoCookie]
  BY <1>2 DEF Logout
<1>3. ASSUME NEW t \in Threads, NEW sid \in SessionIDs, NEW a, Finishes(t, sid, a)
      PROVE  lt[t].req \in Requests /\ lt[t].req.browser \in Browsers
  BY <1>3, LFBasics DEF Finishes, OwnSession, LoginInPlace
<1>4. ASSUME NEW t \in Threads, NEW sid \in SessionIDs,
             NEW a \in {"panic", "code", "tokens"}, Finishes(t, sid, a)
      PROVE  \/ cookie' = cookie
             \/ /\ a \in {"code", "tokens"} /\ HasCredentials(lt[t].req)
                /\ cookie' = [cookie EXCEPT ![lt[t].req.browser] =
                                [sid |-> sid, until |-> now + CookieAge]]
  BY <1>4 DEF Finishes, SetCookie
<1>5. ASSUME NEW t \in Threads, NEW sid \in SessionIDs, Opens(t, sid)
      PROVE  cookie' = cookie
  BY <1>5 DEF Opens
<1> DEFINE Sets == \E t \in Threads, sid \in SessionIDs, a \in {"code", "tokens"} :
                /\ Finishes(t, sid, a) /\ HasCredentials(lt[t].req)
                /\ lt[t].req \in Requests /\ lt[t].req.browser \in Browsers
                /\ cookie' = [cookie EXCEPT ![lt[t].req.browser] =
                                [sid |-> sid, until |-> now + CookieAge]]
<1>6. ASSUME NEW t \in Threads, NEW sid \in SessionIDs,
             NEW a \in {"panic", "code", "tokens"}, Finishes(t, sid, a)
      PROVE  cookie' = cookie \/ Sets
  BY <1>3, <1>4, <1>6
<1> HIDE DEF Sets
<1>7. \/ cookie' = cookie
      \/ \E b \in Browsers : Logout(b)
      \/ Sets
  BY <1>1, <1>5, <1>6, LoginMoves
<1> QED
  BY <1>2, <1>7 DEF Sets

LEMMA CookiesStep ==
    ASSUME LFInv, [LFNext]_lfVars
    PROVE  /\ cookie' \in [Browsers -> {NoCookie} \cup [sid : SessionIDs, until : Nat]]
           /\ CookiesEarned'
<1>0. /\ cookie \in [Browsers -> {NoCookie} \cup [sid : SessionIDs, until : Nat]]
      /\ CookiesEarned /\ now + CookieAge \in Nat
  BY LFBasics, LoginAssumption DEF LFInv
<1>1. ASSUME cookie' = cookie
      PROVE  /\ cookie' \in [Browsers -> {NoCookie} \cup [sid : SessionIDs, until : Nat]]
             /\ CookiesEarned'
  BY <1>0, <1>1, EarnedStays DEF CookiesEarned
<1>2. ASSUME NEW b \in Browsers, cookie' = [cookie EXCEPT ![b] = NoCookie]
      PROVE  /\ cookie' \in [Browsers -> {NoCookie} \cup [sid : SessionIDs, until : Nat]]
             /\ CookiesEarned'
  BY <1>0, <1>2, EarnedStays DEF CookiesEarned
<1>3. ASSUME NEW t \in Threads, NEW sid \in SessionIDs, NEW a \in {"code", "tokens"},
             Finishes(t, sid, a), HasCredentials(lt[t].req),
             NEW b \in Browsers,
             cookie' = [cookie EXCEPT ![b] = [sid |-> sid, until |-> now + CookieAge]]
      PROVE  /\ cookie' \in [Browsers -> {NoCookie} \cup [sid : SessionIDs, until : Nat]]
             /\ CookiesEarned'
  <2>1. Earned(sid)'
    <3>1. LoginInPlace(t)
      BY LFBasics
    <3>2. Authenticated(lt[t])
      BY <1>3, <3>1, LoginAssumption DEF Finishes, OwnSession, LoginInPlace
    <3>3. lt'[t].sid = sid /\ Authenticated(lt[t])' /\ Served(lt[t])'
      BY <1>3, <3>2 DEF Finishes, Becomes, Authenticated, Served
    <3> QED
      BY <3>3 DEF Earned
  <2> DEFINE entry == [sid |-> sid, until |-> now + CookieAge]
  <2>2. entry \in [sid : SessionIDs, until : Nat] /\ entry.sid = sid
    BY <1>0
  <2> HIDE DEF entry
  <2>3. cookie' \in [Browsers -> {NoCookie} \cup [sid : SessionIDs, until : Nat]]
    BY <1>0, <1>3, <2>2 DEF entry
  <2>4. ASSUME NEW c \in Browsers, cookie'[c] # NoCookie
        PROVE  Earned(cookie[c].sid)'
    <3>1. CASE c = b
      <4>1. cookie'[c].sid = sid
        BY <1>0, <1>3, <2>2, <3>1 DEF entry
      <4> QED
        BY <2>1, <4>1 DEF Earned
    <3>2. CASE c # b
      <4>1. cookie'[c] = cookie[c]
        BY <1>0, <1>3, <3>2
      <4>2. Earned(cookie[c].sid)
        BY <1>0, <2>4, <4>1 DEF CookiesEarned
      <4>3. PICK o \in Threads : lt[o].sid = cookie[c].sid
                                 /\ Authenticated(lt[o]) /\ Served(lt[o])
        BY <4>2 DEF Earned
      <4>4. lt'[o] = lt[o]
        BY <4>3, DoneIsFinal DEF Served
      <4> QED
        BY <4>1, <4>3, <4>4 DEF Earned, Served, Authenticated
    <3> QED
      BY <3>1, <3>2
  <2> QED
    BY <2>3, <2>4 DEF CookiesEarned
<1> QED
  BY <1>1, <1>2, <1>3, CookieMoves

(* A request that is signed on by cookie already was, or is now, by the    *)
(* cookie it came with.                                                    *)
LEMMA SignOnsStep ==
    ASSUME LFInv, [LFNext]_lfVars
    PROVE  SignOnsEarned'
<1> SUFFICES ASSUME NEW t \in Threads, SignedOnByCookie(t)'
             PROVE  /\ Earned(lt[t].sid)' /\ ~lt'[t].loggedOut
                    /\ lt'[t].idle <= SessionTTL
  BY DEF SignOnsEarned
<1>0. lt'[t].sid # NoSession /\ ~HasCredentials(lt'[t].req) /\ LoginInPlace(t)
      /\ SSSound /\ now \in Nat
  BY LFBasics DEF SignedOnByCookie
<1>1. ASSUME lt'[t].sid = lt[t].sid, lt'[t].req = lt[t].req, HistoryKept(t)
      PROVE  /\ Earned(lt[t].sid)' /\ ~lt'[t].loggedOut
             /\ lt'[t].idle <= SessionTTL
  <2>1. SignedOnByCookie(t)
    BY <1>0, <1>1 DEF SignedOnByCookie
  <2>2. Earned(lt[t].sid) /\ ~lt[t].loggedOut /\ lt[t].idle <= SessionTTL
    BY <2>1 DEF LFInv, SignOnsEarned
  <2>3. PICK o \in Threads : lt[o].sid = lt[t].sid
                             /\ Authenticated(lt[o]) /\ Served(lt[o])
    BY <2>2 DEF Earned
  <2>4. lt'[o] = lt[o]
    BY <2>3, DoneIsFinal DEF Served
  <2> QED
    BY <1>1, <2>2, <2>3, <2>4 DEF Earned, Served, Authenticated, HistoryKept
<1>2. ASSUME NEW r \in Requests, NEW sid, SignsOn(t, r, sid)
      PROVE  /\ Earned(lt[t].sid)' /\ ~lt'[t].loggedOut
             /\ lt'[t].idle <= SessionTTL
  <2>1. /\ lt'[t].sid = sid /\ lt'[t].idle = now - lastUse[sid]
        /\ lt'[t].loggedOut = (sid \in ended)
        /\ sid # NoSession /\ sid = CookieSent(r.browser) /\ SessionLive(sid)
    BY <1>2 DEF SignsOn, Becomes
  <2>2. /\ sid \in DOMAIN sessions /\ ~Expired(sessions[sid].expiresAt)
        /\ sessions[sid].expiresAt = lastUse[sid] + SessionTTL
        /\ sid \notin ended /\ lastUse[sid] \in Nat
    BY <1>0, <2>1 DEF SessionLive, SSSound, SSTypeOK, StoredIsFresh
  <2>3. now - lastUse[sid] <= SessionTTL
    BY <1>0, <2>2, SessionAssumption DEF Expired
  <2>4. r.browser \in Browsers
    BY LFBasics
  <2>5. cookie[r.browser] # NoCookie /\ cookie[r.browser].sid = sid
    BY <2>1 DEF CookieSent
  <2>6. Earned(sid)
    BY <2>4, <2>5 DEF LFInv, CookiesEarned
  <2>7. PICK o \in Threads : lt[o].sid = sid
                             /\ Authenticated(lt[o]) /\ Served(lt[o])
    BY <2>6 DEF Earned
  <2>8. lt'[o] = lt[o]
    BY <2>7, DoneIsFinal DEF Served
  <2> QED
    BY <2>1, <2>2, <2>3, <2>7, <2>8 DEF Earned, Served, Authenticated
<1>3. \/ /\ lt'[t].sid = lt[t].sid /\ lt'[t].req = lt[t].req /\ HistoryKept(t)
      \/ \E r \in Requests : \E sid : SignsOn(t, r, sid)
  <2>1. ASSUME lt'[t] = lt[t]
        PROVE  lt'[t].sid = lt[t].sid /\ lt'[t].req = lt[t].req /\ HistoryKept(t)
    BY <2>1 DEF HistoryKept
  <2>2. CASE Restart
    BY <2>1, <2>2, RestartMoves
  <2>3. CASE Arrival(t)
    BY <1>0, <2>3 DEF Arrival, Refuses, Begins, Becomes
  <2>4. CASE Onward(t)
    BY <2>4 DEF Onward, Proceeds, Becomes
  <2>5. ASSUME NEW sid \in SessionIDs, OwnSession(t, sid), lt'[t].req = lt[t].req,
               lt'[t].sid = sid
        PROVE  lt'[t].sid = lt[t].sid
    BY <1>0, <2>5 DEF OwnSession, LoginInPlace, Authenticated
  <2>6. ASSUME NEW sid \in SessionIDs,
               Opens(t, sid) \/ \E a \in {"panic", "code", "tokens"} : Finishes(t, sid, a)
        PROVE  lt'[t].sid = lt[t].sid /\ lt'[t].req = lt[t].req /\ HistoryKept(t)
    BY <2>5, <2>6 DEF Opens, Finishes, Becomes
  <2>7. ASSUME NEW b \in Browsers, Logout(b) PROVE lt' = lt
    BY <2>7 DEF Logout
  <2> QED
    BY <2>1, <2>2, <2>3, <2>4, <2>6, <2>7, LoginMoves, OthersStay
<1> QED
  BY <1>1, <1>2, <1>3

LEMMA UsersShrink ==
    ASSUME LFInv, [LFNext]_lfVars
    PROVE  users' \subseteq users /\ restarts' \in 0..MaxRestarts
<1>0. restarts \in 0..MaxRestarts /\ MaxRestarts \in Nat
  BY LoginAssumption DEF LFInv, LFTypeOK
<1>1. CASE Restart
  <2>1. restarts' = restarts + 1 /\ restarts < MaxRestarts /\ users' = users
    BY <1>1 DEF Restart
  <2> QED
    BY <1>0, <2>1
<1>2. ASSUME ~Restart PROVE users' \subseteq users /\ restarts' = restarts
  <2>1. ASSUME NEW t \in Threads, Begin(t) PROVE UNCHANGED <<users, restarts>>
    BY <2>1 DEF Begin, AuthorizeRefused, AuthorizeImplicit, AuthorizeCookie,
                AuthorizeCredentials, AuthorizePromptNone, LoginPost
  <2>2. ASSUME NEW t \in Threads, Step(t) PROVE UNCHANGED <<users, restarts>>
    BY <2>2 DEF Step, LookupSessionUser, SessionStamp, CreateSession,
                CodeStamp, IssueCode
  <2>3. ASSUME NEW b \in Browsers, Logout(b) PROVE UNCHANGED <<users, restarts>>
    BY <2>3 DEF Logout
  <2>4. ASSUME NEW u, DeleteUser(u)
        PROVE  users' \subseteq users /\ restarts' = restarts
    BY <2>4 DEF DeleteUser
  <2>5. CASE ClockTick \/ UNCHANGED lfVars
    BY <2>5 DEF ClockTick, lfVars
  <2> QED
    BY <1>2, <2>1, <2>2, <2>3, <2>4, <2>5 DEF LFNext
<1> QED
  BY <1>0, <1>1, <1>2

LEMMA SsoServedStep ==
    ASSUME LFInv, [LFNext]_lfVars
    PROVE  SsoServed'
<1> SUFFICES ASSUME NEW t \in Threads, lt'[t].ssoUser # NoUser,
                    lt'[t].req.path = "authorize", lt'[t].req.response = "code",
                    lt'[t].req.given = "none", lt'[t].answer = "login_page"
             PROVE  lt'[t].ssoUser \notin users'
  BY DEF SsoServed
<1>0. LoginInPlace(t)
  BY LFBasics
<1>1. ASSUME lt'[t] = lt[t] PROVE lt'[t].ssoUser \notin users'
  BY <1>1, UsersShrink DEF LFInv, SsoServed
<1>2. CASE Restart
  BY <1>1, <1>2, RestartMoves
<1>3. CASE Arrival(t)
  BY <1>3 DEF Arrival, Refuses, PageJustified, Begins, SignsOn, Becomes
<1>4. CASE Onward(t)
  <2>1. /\ lt[t].pc = "lookup" /\ lt[t].user \notin users
        /\ lt'[t].ssoUser = lt[t].ssoUser
    BY <1>4 DEF Onward, Proceeds, Becomes
  <2> QED
    BY <1>0, <2>1, UsersShrink DEF LoginInPlace
<1>5. ASSUME NEW sid \in SessionIDs PROVE ~Opens(t, sid)
  BY DEF Opens, Becomes
<1>6. ASSUME NEW sid \in SessionIDs, NEW a \in {"panic", "code", "tokens"}
      PROVE  ~Finishes(t, sid, a)
  BY DEF Finishes, Becomes
<1>7. ASSUME NEW b \in Browsers, Logout(b) PROVE lt' = lt
  BY <1>7 DEF Logout
<1> QED
  BY <1>1, <1>2, <1>3, <1>4, <1>5, <1>6, <1>7, LoginMoves, OthersStay

-----------------------------------------------------------------------------
(* The sessions a logout can reach.                                        *)

(* A login that opens a session, or is answered, keeps its session in      *)
(* reach.                                                                  *)
LEMMA OwnerReachable ==
    ASSUME LFInv, [LFNext]_lfVars, NEW t \in Threads, NEW sid \in SessionIDs,
           HasCredentials(lt[t].req), now' = now,
           \/ Opens(t, sid)
           \/ \E a \in {"panic", "code", "tokens"} : Finishes(t, sid, a)
    PROVE  lt'[t].sid = sid /\ Reachable(t)'
<1>0. /\ LoginInPlace(t) /\ now \in Nat /\ CookieAge \in Nat
      /\ cookie \in [Browsers -> {NoCookie} \cup [sid : SessionIDs, until : Nat]]
      /\ \A r \in Requests : r.browser \in Browsers
      /\ NoCookie \notin [sid : SessionIDs, until : Nat]
  BY LFBasics, LoginAssumption
<1>1. ASSUME OwnSession(t, sid) PROVE lt[t].req \in Requests
  BY <1>0, <1>1 DEF OwnSession, LoginInPlace
<1>2. CASE Opens(t, sid)
  BY <1>1, <1>2 DEF Opens, Becomes, Reachable
<1>3. ASSUME NEW a \in {"panic", "code", "tokens"}, Finishes(t, sid, a)
      PROVE  lt'[t].sid = sid /\ Reachable(t)'
  <2>1. /\ lt[t].req \in Requests /\ lt'[t].req = lt[t].req /\ lt'[t].sid = sid
        /\ lt'[t].answer = a /\ lt'[t].stamp <= now /\ lt'[t].stamp \in Nat
    BY <1>1, <1>3 DEF Finishes, Becomes, LoginStates
  <2>2. CASE a = "panic"
    BY <2>1, <2>2 DEF Reachable
  <2>3. CASE a # "panic"
    <3> DEFINE entry == [sid |-> sid, until |-> now + CookieAge]
               b == lt[t].req.browser
    <3>1. /\ entry \in [sid : SessionIDs, until : Nat] /\ entry.sid = sid
          /\ entry.until = now + CookieAge
      BY <1>0
    <3>2. cookie' = [cookie EXCEPT ![b] = entry] /\ b \in Browsers
      BY <1>0, <1>3, <2>1, <2>3 DEF Finishes, SetCookie
    <3> HIDE DEF entry
    <3>3. cookie'[b] = entry
      BY <1>0, <3>2
    <3>4. entry # NoCookie /\ entry.until >= lt'[t].stamp + CookieAge
      BY <1>0, <2>1, <3>1
    <3>5. InCookie(t)'
      BY <2>1, <3>1, <3>3, <3>4 DEF InCookie
    <3> QED
      BY <2>1, <3>5 DEF Reachable
  <2> QED
    BY <2>2, <2>3
<1> QED
  BY <1>2, <1>3

(* An answered login keeps its session in reach, until the session ends.   *)
LEMMA AnsweredReachable ==
    ASSUME LFInv, [LFNext]_lfVars, NEW w \in Threads, lt[w].pc = "done",
           Reachable(w), lt[w].sid \in SessionIDs, lt[w].sid \in DOMAIN sessions'
    PROVE  Reachable(w)'
<1> DEFINE b == lt[w].req.browser
<1>0. /\ now \in Nat /\ now' \in Nat /\ now <= now' /\ CookieAge \in Nat
      /\ lt[w].stamp \in Nat /\ lt'[w] = lt[w]
      /\ lt[w].req \in Requests /\ HasCredentials(lt[w].req)
      /\ b \in Browsers
      /\ cookie \in [Browsers -> {NoCookie} \cup [sid : SessionIDs, until : Nat]]
      /\ NoCookie \notin [sid : SessionIDs, until : Nat]
      /\ NoSession \notin SessionIDs
  BY LFBasics, StoresKept, LoginAssumption, DoneIsFinal DEF LoginStates, Reachable
<1>1. ASSUME lt[w].answer = "panic" \/ now > lt[w].stamp + CookieAge
      PROVE  Reachable(w)'
  <2>1. lt'[w].answer = "panic" \/ now' > lt'[w].stamp + CookieAge
    BY <1>0, <1>1
  <2> QED
    BY <1>0, <2>1 DEF Reachable
<1>2. ASSUME Superseded(w) PROVE Reachable(w)'
  <2>1. PICK o \in Threads \ {w} :
          /\ lt[o].req # NoRequest /\ lt[o].req.browser = lt[w].req.browser
          /\ HasCredentials(lt[o].req) /\ lt[o].sid # NoSession /\ Served(lt[o])
    BY <1>2 DEF Superseded
  <2>2. lt'[o] = lt[o]
    BY <2>1, DoneIsFinal DEF Served
  <2>3. Superseded(w)'
    BY <1>0, <2>1, <2>2 DEF Superseded, Served
  <2> QED
    BY <1>0, <2>3 DEF Reachable
<1>3. ASSUME InCookie(w) PROVE Reachable(w)'
  <2>0. cookie[b] # NoCookie /\ cookie[b].sid = lt[w].sid
        /\ cookie[b].until >= lt[w].stamp + CookieAge /\ cookie[b].until \in Nat
    BY <1>0, <1>3 DEF InCookie
  <2>1. ASSUME cookie'[b] = cookie[b] PROVE Reachable(w)'
    <3>1. InCookie(w)'
      BY <1>0, <2>0, <2>1 DEF InCookie
    <3> QED
      BY <1>0, <3>1 DEF Reachable
  <2>2. ASSUME Logout(b) PROVE Reachable(w)'
    <3>1. CookieSent(b) # lt[w].sid
      BY <1>0, <2>2 DEF Logout, Revoke, Without, Restrict
    <3>2. now > cookie[b].until
      BY <1>0, <2>0, <3>1 DEF CookieSent
    <3>3. now > lt[w].stamp + CookieAge
      BY <1>0, <2>0, <3>2
    <3> QED
      BY <1>1, <3>3
  <2>3. ASSUME NEW t \in Threads, NEW sid \in SessionIDs, NEW a \in {"code", "tokens"},
               Finishes(t, sid, a), HasCredentials(lt[t].req),
               lt[t].req \in Requests, lt[t].req.browser = b
        PROVE  Reachable(w)'
    <3>1. t # w
      BY <2>3 DEF Finishes, OwnSession
    <3>2. /\ lt'[t].req = lt[t].req /\ lt'[t].sid = sid /\ lt'[t].pc = "done"
          /\ lt'[t].answer = a
      BY <2>3 DEF Finishes, Becomes
    <3>3. lt'[t].req # NoRequest /\ lt'[t].sid # NoSession
      BY <1>0, <2>3, <3>2, LoginAssumption
    <3>4. Superseded(w)'
      BY <1>0, <2>3, <3>1, <3>2, <3>3 DEF Superseded, Served
    <3> QED
      BY <1>0, <3>4 DEF Reachable
  <2>4. ASSUME NEW c \in Browsers, Logout(c),
               cookie' = [cookie EXCEPT ![c] = NoCookie]
        PROVE  Reachable(w)'
    <3>1. CASE c = b
      BY <2>2, <2>4, <3>1
    <3>2. CASE c # b
      BY <1>0, <2>1, <2>4, <3>2
    <3> QED
      BY <3>1, <3>2
  <2>5. ASSUME NEW t \in Threads, NEW sid \in SessionIDs, NEW a \in {"code", "tokens"},
               Finishes(t, sid, a), HasCredentials(lt[t].req),
               lt[t].req \in Requests,
               cookie' = [cookie EXCEPT ![lt[t].req.browser] =
                            [sid |-> sid, until |-> now + CookieAge]]
        PROVE  Reachable(w)'
    <3>1. CASE lt[t].req.browser = b
      BY <2>3, <2>5, <3>1
    <3>2. CASE lt[t].req.browser # b
      <4>1. cookie'[b] = cookie[b]
        BY <1>0, <2>5, <3>2
      <4> QED
        BY <2>1, <4>1
    <3> QED
      BY <3>1, <3>2
  <2> QED
    BY <2>1, <2>4, <2>5, CookieMoves
<1> QED
  BY <1>1, <1>2, <1>3 DEF Reachable

(* A login under way keeps its session in reach.                           *)
LEMMA PendingReachable ==
    ASSUME LFInv, [LFNext]_lfVars, ~Restart, NEW w \in Threads,
           lt[w].pc # "done", Reachable(w), lt[w].sid \in SessionIDs
    PROVE  lt'[w].sid = lt[w].sid /\ Reachable(w)'
<1> DEFINE Goal == lt'[w].sid = lt[w].sid /\ Reachable(w)'
<1>0. /\ LoginInPlace(w) /\ lt[w].sid # NoSession
      /\ lt[w].req \in Requests /\ HasCredentials(lt[w].req)
  BY LFBasics, LoginAssumption DEF Reachable
<1>1. lt[w].pc \notin {"idle", "lookup", "login", "create"}
  BY <1>0 DEF LoginInPlace
<1>2. ASSUME lt'[w] = lt[w] PROVE Goal
  BY <1>0, <1>2 DEF Reachable
<1>3. ASSUME Arrival(w) PROVE Goal
  BY <1>1, <1>3 DEF Arrival, Refuses, Begins, SignsOn
<1>4. ASSUME Onward(w) PROVE Goal
  <2>1. /\ lt'[w].sid = lt[w].sid /\ lt'[w].req = lt[w].req
        /\ lt'[w].pc # "done"
    BY <1>1, <1>4 DEF Onward, Proceeds, Becomes
  <2> QED
    BY <1>0, <2>1 DEF Reachable
<1>5. ASSUME NEW sid \in SessionIDs, now' = now,
             \/ Opens(w, sid)
             \/ \E a \in {"panic", "code", "tokens"} : Finishes(w, sid, a)
      PROVE  Goal
  <2>1. sid = lt[w].sid
    BY <1>1, <1>5 DEF Opens, Finishes, OwnSession
  <2> QED
    BY <1>0, <1>5, <2>1, OwnerReachable
<1>6. ASSUME NEW c \in Browsers, Logout(c) PROVE lt' = lt
  BY <1>6 DEF Logout
<1> HIDE DEF Goal
<1>7. Goal
  BY <1>2, <1>3, <1>4, <1>5, <1>6, LoginMoves, OthersStay
<1> QED
  BY <1>7 DEF Goal

LEMMA SessionsReachableStep ==
    ASSUME LFInv, [LFNext]_lfVars
    PROVE  SessionsReachable'
<1> SUFFICES ASSUME NEW sid \in DOMAIN sessions'
             PROVE  \E t \in Threads : lt'[t].sid = sid /\ Reachable(t)'
  BY DEF SessionsReachable
<1>0. ~Restart
  BY DEF Restart
<1>1. CASE sid \in DOMAIN sessions
  <2>1. sid \in SessionIDs
    BY <1>1, LFBasics DEF SSSound, SSTypeOK
  <2>2. PICK w \in Threads : lt[w].sid = sid /\ Reachable(w)
    BY <1>1 DEF LFInv, SessionsReachable
  <2>3. CASE lt[w].pc = "done"
    BY <2>1, <2>2, <2>3, AnsweredReachable, DoneIsFinal
  <2>4. CASE lt[w].pc # "done"
    BY <1>0, <2>1, <2>2, <2>4, PendingReachable
  <2> QED
    BY <2>3, <2>4
<1>2. CASE sid \notin DOMAIN sessions
  <2>1. ASSUME NEW b \in Browsers, Logout(b) PROVE FALSE
    BY <1>2, <2>1 DEF Logout, Revoke, Without, Restrict, sessionData
  <2>2. PICK t \in Threads, s \in SessionIDs :
          /\ now' = now
          /\ \/ Opens(t, s)
             \/ \E a \in {"panic", "code", "tokens"} : Finishes(t, s, a)
    BY <1>0, <1>2, <2>1, LoginMoves
  <2>3. OwnSession(t, s)
    BY <2>2 DEF Opens, Finishes
  <2>4. s = sid /\ lt[t].pc = "create"
    BY <1>2, <2>3 DEF OwnSession
  <2>5. HasCredentials(lt[t].req)
    BY <2>4, LFBasics DEF LoginInPlace, Authenticated
  <2> QED
    BY <2>2, <2>4, <2>5, OwnerReachable
<1> QED
  BY <1>1, <1>2

-----------------------------------------------------------------------------
(* The theorems.                                                           *)

LEMMA LFInvInit == LFInit => LFInv
<1> SUFFICES ASSUME LFInit PROVE LFInv
  OBVIOUS
<1>1. /\ lt \in [Threads -> LoginStates]
      /\ \A t \in Threads : lt[t] = NewThread
  BY NewFields DEF LFInit
<1>2. GSTypeOK
  BY TypeInit DEF LFInit
<1>3. SSTypeOK /\ StoredIsFresh /\ now = 0 /\ sessions = << >>
  BY DEF LFInit, SSInit, SSTypeOK, StoredIsFresh
<1>4. LFTypeOK
  BY <1>1, <1>2, <1>3, LoginAssumption DEF LFInit, LFTypeOK
<1>5. LoginsInPlace
  BY <1>1, <1>3, NewFields DEF LoginsInPlace, LoginInPlace
<1>6. CookiesEarned /\ SignOnsEarned /\ SsoServed
  BY <1>1, NewFields
     DEF LFInit, CookiesEarned, SignOnsEarned, SignedOnByCookie, SsoServed
<1>7. SessionsReachable
  BY <1>3 DEF SessionsReachable
<1> QED
  BY <1>3, <1>4, <1>5, <1>6, <1>7 DEF LFInv

LEMMA LFInvStep == LFInv /\ [LFNext]_lfVars => LFInv'
<1> SUFFICES ASSUME LFInv, [LFNext]_lfVars PROVE LFInv'
  OBVIOUS
<1>1. LFTypeOK'
  <2>1. users' \subseteq Users
    BY UsersShrink DEF LFInv, LFTypeOK
  <2> QED
    BY <2>1, StoresKept, LoginsInPlaceStep, CookiesStep, UsersShrink DEF LFTypeOK
<1> QED
  BY <1>1, StoresKept, LoginsInPlaceStep, CookiesStep, SignOnsStep,
     SsoServedStep, SessionsReachableStep DEF LFInv

LEMMA LFInvHolds == LFSpec => []LFInv
BY LFInvInit, LFInvStep, PTL DEF LFSpec

(* The requests, the cookies, the sessions and the grants keep their types *)
(* in every interleaving of logins, logouts and restarts.                  *)
THEOREM LoginTyping == LFSpec => []LFTypeOK
<1>1. LFInv => LFTypeOK
  BY DEF LFInv
<1> QED
  BY <1>1, LFInvHolds, PTL

(* Nobody is signed on by cookie as a user who did not give the password:  *)
(* whatever browser, session and restart, /authorize honours only a session*)
(* whose own login was answered, and only while Get may.                   *)
THEOREM SingleSignOnEarned == LFSpec => []SignOnEarned
<1>1. LFInv => SignOnEarned
  <2> SUFFICES ASSUME LFInv, NEW t \in Threads, SignedOnByCookie(t)
               PROVE  /\ \E o \in Threads : /\ lt[o].sid = lt[t].sid
                                            /\ HasCredentials(lt[o].req)
                                            /\ lt[o].req.user = lt[t].user
                                            /\ lt[o].req.correct
                                            /\ lt[o].answer \in {"code", "tokens"}
                      /\ ~lt[t].loggedOut /\ lt[t].idle <= SessionTTL
    BY DEF SignOnEarned
  <2>1. Earned(lt[t].sid) /\ ~lt[t].loggedOut /\ lt[t].idle <= SessionTTL
    BY DEF LFInv, SignOnsEarned
  <2>2. PICK o \in Threads :
          lt[o].sid = lt[t].sid /\ Authenticated(lt[o]) /\ Served(lt[o])
    BY <2>1 DEF Earned
  <2>3. lt[o].user = lt[t].user
    BY <2>2, LFBasics DEF LoginInPlace, SignedOnByCookie
  <2> QED
    BY <2>1, <2>2, <2>3 DEF Authenticated, Served
<1> QED
  BY <1>1, LFInvHolds, PTL

(* The code flow sends a person with a live session to the login page only *)
(* if the account is gone.                                                 *)
THEOREM SingleSignOnServed == LFSpec => []SsoServed
<1>1. LFInv => SsoServed
  BY DEF LFInv
<1> QED
  BY <1>1, LFInvHolds, PTL

(* No live session is out of a logout's reach but for the reasons listed.  *)
THEOREM LogoutReaches == LFSpec => []LiveSessionsAreReachable
<1>1. LFInv => LiveSessionsAreReachable
  <2> SUFFICES ASSUME LFInv, NEW sid \in DOMAIN sessions
               PROVE  \/ \E b \in Browsers : cookie[b] # NoCookie /\ cookie[b].sid = sid
                      \/ \E t \in Threads :
                           /\ lt[t].sid = sid
                           /\ HasCredentials(lt[t].req)
                           /\ \/ lt[t].pc # "done"
                              \/ lt[t].answer = "panic"
                              \/ now > lt[t].stamp + CookieAge
                              \/ \E o \in Threads \ {t} :
                                   /\ lt[o].req # NoRequest
                                   /\ lt[o].req.browser = lt[t].req.browser
                                   /\ HasCredentials(lt[o].req)
                                   /\ lt[o].sid # NoSession
                                   /\ lt[o].answer \in {"code", "tokens"}
    BY DEF LiveSessionsAreReachable
  <2>1. PICK t \in Threads : lt[t].sid = sid /\ Reachable(t)
    BY DEF LFInv, SessionsReachable
  <2>2. lt[t].req.browser \in Browsers
    BY <2>1, LFBasics DEF Reachable
  <2> QED
    BY <2>1, <2>2 DEF Reachable, Superseded, Served, InCookie
<1> QED
  BY <1>1, LFInvHolds, PTL
=============================================================================
