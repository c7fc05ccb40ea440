----------------------------- MODULE DeviceFlow -----------------------------
(***************************************************************************)
(* The device authorization grant of internal/handlers: a device asks for  *)
(* a code (POST /oauth/device/code), a person approves or denies it on the *)
(* page /oauth/device/authorize, and the device polls /oauth/token.        *)
(*                                                                         *)
(* A poll is a goroutine with four accesses to shared state.  The second   *)
(* one reads two fields of the DeviceCode that GetDeviceCode returned,     *)
(* without the store's mutex, while approvals and denials write them: a    *)
(* data race.  Each read returns the value at the time of the Get or any   *)
(* value written since; the fields only change from FALSE to TRUE, so that *)
(* is the old value or the current one.                                    *)
(***************************************************************************)
EXTENDS GrantStore

CONSTANTS
    Polls,       \* polls in the life of the model; each is sent once
    Approvals,   \* submissions of the approval page; each is sent once
    MaxRestarts, \* bound on server restarts
    NoDevice, NoTyped

ASSUME DeviceFlowAssumption ==
    /\ MaxRestarts \in Nat
    /\ NoDevice \notin DeviceCodes
    /\ NoTyped \notin TypedCodes

VARIABLES
    poll,      \* the state of every poll
    approval,  \* the state of every submission
    users,     \* ids of the users in the database
    restarts

dfVars == <<now, codes, refresh, dcs, devices, userCodes, used, spent,
            poll, approval, users, restarts>>

NewPoll == [pc |-> "idle", dev |-> NoDevice, denied |-> FALSE,
            authorized |-> FALSE, user |-> NoUser, answer |-> "none"]
NewApproval == [pc |-> "idle", typed |-> NoTyped, user |-> NoUser,
                page |-> "none", marked |-> FALSE]

DFInit ==
    /\ GSInit
    /\ poll = [p \in Polls |-> NewPoll]
    /\ approval = [a \in Approvals |-> NewApproval]
    /\ users = Users
    /\ restarts = 0

-----------------------------------------------------------------------------
\* handleDeviceCodeRequest; randomUserCode may repeat a user code.
DeviceCodeRequest(d, uc, req, stamp) ==
    /\ d \notin used
    /\ SaveDeviceCode(d, Shown(uc), req, stamp)
    /\ UNCHANGED <<poll, approval, users, restarts>>

\* handleDeviceAuthorize with action=deny
Deny(typed) ==
    /\ DenyDeviceCode(typed)
    /\ UNCHANGED <<poll, approval, users, restarts>>

\* handleDeviceAuthorize, the credentials: GetByEmail and VerifyPassword.
SubmitCredentials(a, typed, user, correct) ==
    /\ approval[a].pc = "idle"
    /\ approval' = [approval EXCEPT ![a] =
         IF user \in users /\ correct
         THEN [@ EXCEPT !.pc = "authorize", !.typed = typed, !.user = user]
         ELSE [@ EXCEPT !.pc = "done", !.page = "invalid"]]
    /\ UNCHANGED <<gsVars, poll, users, restarts>>

\* handleDeviceAuthorize, the approval: the result of AuthorizeDeviceCode
\* (kept as history in marked) is not looked at.
ApproveDevice(a) ==
    LET typed == approval[a].typed
    IN  /\ approval[a].pc = "authorize"
        /\ AuthorizeDeviceCode(typed, approval[a].user)
        /\ approval' = [approval EXCEPT ![a].pc = "done",
                                        ![a].page = "authorized",
                                        ![a].marked = Authorizable(typed) # {}]
        /\ UNCHANGED <<poll, users, restarts>>

-----------------------------------------------------------------------------
(* handleDeviceCodeToken                                                   *)

PollAnswer(p, answer) ==
    poll' = [poll EXCEPT ![p].pc = "done", ![p].answer = answer]

PollGet(p, d) ==
    /\ poll[p].pc = "idle"
    /\ GetDeviceCode(d)
    /\ poll' = [poll EXCEPT ![p] =
         IF d \in liveDevices
         THEN [@ EXCEPT !.pc = "check", !.dev = d,
                        !.denied = dcs[d].AccessDenied,
                        !.authorized = dcs[d].UserAuthorized]
         ELSE [@ EXCEPT !.pc = "done", !.dev = d, !.answer = "invalid_grant"]]
    /\ UNCHANGED <<approval, users, restarts>>

\* Slip: only the approval is checked.
PollCheckNoDenial(p) ==
    LET dc == dcs[poll[p].dev]
    IN  /\ poll[p].pc = "check"
        /\ \E authorized \in {poll[p].authorized, dc.UserAuthorized} :
             \/ authorized /\ poll' = [poll EXCEPT ![p].pc = "consume"]
             \/ ~authorized /\ PollAnswer(p, "authorization_pending")
        /\ UNCHANGED <<gsVars, approval, users, restarts>>

\* The two reads without the mutex.
PollCheck(p) ==
    LET dc == dcs[poll[p].dev]
    IN  /\ poll[p].pc = "check"
        /\ \E denied \in {poll[p].denied, dc.AccessDenied},
              authorized \in {poll[p].authorized, dc.UserAuthorized} :
             \/ denied /\ PollAnswer(p, "access_denied")
             \/ ~denied /\ ~authorized /\ PollAnswer(p, "authorization_pending")
             \/ /\ ~denied /\ authorized
                /\ poll' = [poll EXCEPT ![p].pc = "consume"]
        /\ UNCHANGED <<gsVars, approval, users, restarts>>

\* Slip: the result of ConsumeDeviceCode is not looked at.
PollConsumeUnchecked(p) ==
    LET d == poll[p].dev
    IN  /\ poll[p].pc = "consume"
        /\ ConsumeDeviceCode(d)
        /\ poll' = [poll EXCEPT ![p].pc = "lookup", ![p].user = dcs[d].userID]
        /\ UNCHANGED <<approval, users, restarts>>

PollConsume(p) ==
    LET d == poll[p].dev
    IN  /\ poll[p].pc = "consume"
        /\ ConsumeDeviceCode(d)
        /\ IF Consumable(d)
           THEN poll' = [poll EXCEPT ![p].pc = "lookup",
                                     ![p].user = dcs[d].userID]
           ELSE PollAnswer(p, "invalid_grant")
        /\ UNCHANGED <<approval, users, restarts>>

\* Store.GetByID, the rules and the tokens.
PollLookup(p) ==
    /\ poll[p].pc = "lookup"
    /\ PollAnswer(p, IF poll[p].user \in users THEN "ok" ELSE "server_error")
    /\ UNCHANGED <<gsVars, approval, users, restarts>>

-----------------------------------------------------------------------------
DeleteUser(u) ==
    /\ users' = users \ {u}
    /\ UNCHANGED <<gsVars, poll, approval, restarts>>

\* A new process: an empty store, and no answer to requests under way.
Restart ==
    /\ restarts < MaxRestarts
    /\ restarts' = restarts + 1
    /\ StoreRestart
    /\ poll' = [p \in Polls |->
          IF poll[p].pc \in {"idle", "done"} THEN poll[p]
          ELSE [poll[p] EXCEPT !.pc = "done", !.answer = "lost"]]
    /\ approval' = [a \in Approvals |->
          IF approval[a].pc \in {"idle", "done"} THEN approval[a]
          ELSE [approval[a] EXCEPT !.pc = "done", !.page = "lost"]]
    /\ UNCHANGED users

ClockTick ==
    /\ GSTick
    /\ UNCHANGED <<poll, approval, users, restarts>>

PollStep(p) == PollCheck(p) \/ PollConsume(p) \/ PollLookup(p)

DFNext ==
    \/ \E d \in DeviceCodes, uc \in UserCodes, req \in DeviceRequests,
          stamp \in 0..now : DeviceCodeRequest(d, uc, req, stamp)
    \/ \E typed \in TypedCodes : Deny(typed)
    \/ \E a \in Approvals, typed \in TypedCodes, u \in Users,
          correct \in BOOLEAN : SubmitCredentials(a, typed, u, correct)
    \/ \E a \in Approvals : ApproveDevice(a)
    \/ \E p \in Polls, d \in DeviceCodes : PollGet(p, d)
    \/ \E p \in Polls : PollStep(p)
    \/ \E u \in users : DeleteUser(u)
    \/ Restart
    \/ ClockTick

DFSpec == DFInit /\ [][DFNext]_dfVars

-----------------------------------------------------------------------------
PollStates ==
    [pc : {"idle", "check", "consume", "lookup", "done"},
     dev : DeviceCodes \cup {NoDevice}, denied : BOOLEAN,
     authorized : BOOLEAN, user : Users \cup {NoUser},
     answer : {"none", "ok", "access_denied", "authorization_pending",
               "invalid_grant", "server_error", "lost"}]
ApprovalStates ==
    [pc : {"idle", "authorize", "done"}, typed : TypedCodes \cup {NoTyped},
     user : Users \cup {NoUser},
     page : {"none", "authorized", "invalid", "lost"}, marked : BOOLEAN]

(* The type invariant of the polls and the approval page.                  *)
DFTypeOK ==
    /\ GSTypeOK
    /\ poll \in [Polls -> PollStates]
    /\ \A p \in Polls : poll[p].pc = "lookup" => poll[p].user \in Users
    /\ \A p \in Polls : poll[p].pc \in {"check", "consume"}
                            => poll[p].dev \in DOMAIN dcs
    /\ approval \in [Approvals -> ApprovalStates]
    /\ users \subseteq Users
    /\ restarts \in 0..MaxRestarts

(* A device code is redeemed once: of all the polls that race between the  *)
(* check and ConsumeDeviceCode, at most one gets past it.                  *)
OneRedemption ==
    \A p, q \in Polls :
        /\ poll[p].user # NoUser /\ poll[q].user # NoUser
        /\ poll[p].dev = poll[q].dev
        => p = q

(* A device gets tokens only for a user who typed that device's user code  *)
(* and right credentials before it was redeemed, even if user codes repeat.*)
TokensForApprover ==
    \A p \in Polls : poll[p].user # NoUser =>
        \E a \in Approvals :
            /\ approval[a].marked
            /\ approval[a].user = poll[p].user
            /\ poll[p].dev \in DOMAIN dcs =>
                 normalized(approval[a].typed)
                     = normalized(dcs[poll[p].dev].userCode)

(* A denial that reached the store before a poll began is respected by that*)
(* poll, whatever the race on the fields and later approvals do.           *)
DenialSticks ==
    \A p \in Polls : poll[p].denied => poll[p].user = NoUser

(* "set when user completes auth", says the comment on UserAuthorized: a   *)
(* person whom the page tells "Device authorized." has authorized a device.*)
AuthorizedPageIsTrue ==
    \A a \in Approvals : approval[a].page = "authorized" => approval[a].marked
=============================================================================
