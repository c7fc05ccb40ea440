-------------------------- MODULE DeviceFlowProofs --------------------------
(* Proofs about DeviceFlow, for any number of devices, polls, approvals    *)
(* and restarts.                                                           *)
EXTENDS DeviceFlow, GrantStoreProofs

(* What the fields of a poll say while it runs and afterwards: it carries a*)
(* user only when it has taken its device out of the store, and one that   *)
(* found its device denied never gets past the check.                      *)
PollsAreHonest ==
    \A p \in Polls :
        /\ poll[p].user # NoUser =>
             poll[p].pc \in {"lookup", "done"} /\ poll[p].dev \in spent
        /\ poll[p].denied =>
             poll[p].pc \in {"check", "done"} /\ poll[p].user = NoUser
        /\ poll[p].denied /\ poll[p].pc = "check" =>
             dcs[poll[p].dev].AccessDenied

(* A submission past the credentials knows its user and the code typed,    *)
(* and marks devices only with its last step.                              *)
ApprovalsAreHonest ==
    \A a \in Approvals :
        /\ approval[a].pc = "authorize" =>
             approval[a].user \in Users /\ approval[a].typed \in TypedCodes
        /\ approval[a].marked => approval[a].pc = "done"

(* Submission a has approved the device object d for user u.               *)
Approves(a, d, u) ==
    /\ approval[a].marked
    /\ approval[a].user = u
    /\ normalized(approval[a].typed) = normalized(dcs[d].userCode)

(* An authorized device object names a user who approved it.               *)
MarksAreApproved ==
    \A d \in DOMAIN dcs : dcs[d].UserAuthorized =>
        /\ dcs[d].userID \in Users
        /\ \E a \in Approvals : Approves(a, d, dcs[d].userID)

(* The inductive invariant.                                                *)
DFInv ==
    /\ DFTypeOK
    /\ SpentStaysOut
    /\ UserCodeIndexSound
    /\ PollsAreHonest
    /\ ApprovalsAreHonest
    /\ MarksAreApproved
    /\ OneRedemption
    /\ TokensForApprover

-----------------------------------------------------------------------------
(* Every step of the flow is one step of the grant store under arbitrary   *)
(* callers, or the restart.                                                *)
LEMMA StoreMoves ==
    ASSUME DFInv, [DFNext]_dfVars
    PROVE  [GSNext]_gsVars \/ Restart
<1>1. ASSUME NEW d \in DeviceCodes, NEW uc \in UserCodes,
             NEW req \in DeviceRequests, NEW stamp \in 0..now,
             DeviceCodeRequest(d, uc, req, stamp)
      PROVE  GSNext
  BY <1>1 DEF DeviceCodeRequest, GSNext
<1>2. ASSUME NEW typed \in TypedCodes, Deny(typed) PROVE GSNext
  BY <1>2 DEF Deny, GSNext
<1>3. ASSUME NEW a \in Approvals, ApproveDevice(a) PROVE GSNext
  BY <1>3 DEF ApproveDevice, GSNext, DFInv, ApprovalsAreHonest
<1>4. ASSUME NEW p \in Polls, NEW d \in DeviceCodes, PollGet(p, d) PROVE GSNext
  BY <1>4 DEF PollGet, GSNext
<1>5. ASSUME NEW p \in Polls, PollConsume(p) PROVE GSNext
  BY <1>5 DEF PollConsume, GSNext, DFInv, DFTypeOK, GSTypeOK
<1>6. CASE ClockTick
  BY <1>6 DEF ClockTick, GSNext
<1>7. CASE UNCHANGED gsVars
  BY <1>7
<1> QED
  BY <1>1, <1>2, <1>3, <1>4, <1>5, <1>6, <1>7
     DEF DFNext, PollStep, SubmitCredentials, PollCheck, PollLookup,
         DeleteUser, dfVars, gsVars

(* So what holds of the store alone holds in the flow; a restart empties it*)
(* and forgets no uuid.                                                    *)
LEMMA StoreKept ==
    ASSUME DFInv, [DFNext]_dfVars
    PROVE  GSTypeOK' /\ SpentStaysOut' /\ UserCodeIndexSound'
<1>1. CASE [GSNext]_gsVars
  BY <1>1, TypeStep, SpentStep, IndexStep DEF DFInv, DFTypeOK
<1>2. CASE Restart
  <2>1. StoreRestart
    BY <1>2 DEF Restart
  <2> QED
    BY <2>1 DEF StoreRestart, DFInv, DFTypeOK, GSTypeOK, SpentStaysOut,
                UserCodeIndexSound
<1> QED
  BY <1>1, <1>2, StoreMoves

(* The store's methods keep every device object, its user code and its     *)
(* denial, forget nothing that was spent, and never allocate a spent code. *)
LEMMA ObjectsKept ==
    ASSUME GSTypeOK, [GSNext]_gsVars
    PROVE  /\ spent \subseteq spent'
           /\ DOMAIN dcs \subseteq DOMAIN dcs'
           /\ (DOMAIN dcs' \ DOMAIN dcs) \cap used = {}
           /\ \A d \in DOMAIN dcs :
                /\ dcs'[d].userCode = dcs[d].userCode
                /\ dcs[d].AccessDenied => dcs'[d].AccessDenied
<1> DEFINE Kept ==
      /\ spent \subseteq spent'
      /\ DOMAIN dcs \subseteq DOMAIN dcs'
      /\ (DOMAIN dcs' \ DOMAIN dcs) \cap used = {}
      /\ \A d \in DOMAIN dcs :
           /\ dcs'[d].userCode = dcs[d].userCode
           /\ dcs[d].AccessDenied => dcs'[d].AccessDenied
<1>0. \A d \in DOMAIN dcs : dcs[d] \in DeviceCode
  BY DEF GSTypeOK
<1>1. ASSUME UNCHANGED dcs, spent \subseteq spent' PROVE Kept
  BY <1>1
<1>2. ASSUME NEW d \in DeviceCodes \ used, NEW uc \in UserCodes,
             NEW req \in DeviceRequests, NEW stamp \in 0..now,
             SaveDeviceCode(d, Shown(uc), req, stamp)
      PROVE  Kept
  <2>1. d \notin DOMAIN dcs
    BY DEF GSTypeOK
  <2> QED
    BY <1>2, <2>1 DEF SaveDeviceCode, Put
<1>3. ASSUME NEW typed \in TypedCodes, NEW u \in Users,
             AuthorizeDeviceCode(typed, u)
      PROVE  Kept
  <2>1. \A o \in DeviceCode :
          LET n == [o EXCEPT !.UserAuthorized = TRUE, !.userID = u]
          IN  n.userCode = o.userCode /\ n.AccessDenied = o.AccessDenied
    BY DEF DeviceCode
  <2> QED
    BY <1>0, <1>3, <2>1 DEF AuthorizeDeviceCode
<1>4. ASSUME NEW typed \in TypedCodes, DenyDeviceCode(typed)
      PROVE  Kept
  <2>1. \A o \in DeviceCode :
          LET n == [o EXCEPT !.AccessDenied = TRUE]
          IN  n.userCode = o.userCode /\ n.AccessDenied
    BY DEF DeviceCode
  <2> QED
    BY <1>0, <1>4, <2>1 DEF DenyDeviceCode
<1>5. ASSUME NEW d \in DeviceCodes, ConsumeDeviceCode(d) PROVE Kept
  BY <1>1, <1>5 DEF ConsumeDeviceCode
<1>6. ASSUME NEW c \in Codes, ConsumeCode(c) PROVE Kept
  BY <1>1, <1>6 DEF ConsumeCode
<1>7. ASSUME NEW t \in RefreshTokens,
             ConsumeRefreshToken(t) \/ RevokeRefreshToken(t)
      PROVE  Kept
  BY <1>1, <1>7 DEF ConsumeRefreshToken, RevokeRefreshToken
<1>8. ASSUME UNCHANGED <<dcs, spent>> PROVE Kept
  BY <1>1, <1>8
<1> HIDE DEF Kept
<1>9. Kept
  BY <1>2, <1>3, <1>4, <1>5, <1>6, <1>7, <1>8
     DEF GSNext, SaveCode, SaveRefreshToken, GetDeviceCode, GSTick, gsVars
<1> QED
  BY <1>9 DEF Kept

-----------------------------------------------------------------------------
(* The requests.  Every step rewrites at most one poll or one submission,  *)
(* except the restart, which ends the ones that are running.               *)

(* The conjuncts about polls.                                              *)
PollInv ==
    /\ poll \in [Polls -> PollStates]
    /\ \A p \in Polls : poll[p].pc = "lookup" => poll[p].user \in Users
    /\ \A p \in Polls : poll[p].pc \in {"check", "consume"}
                            => poll[p].dev \in DOMAIN dcs
    /\ PollsAreHonest
    /\ OneRedemption

(* A step of the store that changes no poll keeps them.                    *)
LEMMA PollFrame ==
    ASSUME DFInv, [GSNext]_gsVars, UNCHANGED poll
    PROVE  PollInv'
<1>1. GSTypeOK
  BY DEF DFInv, DFTypeOK
<1> QED
  BY <1>1, ObjectsKept
     DEF DFInv, DFTypeOK, PollInv, PollsAreHonest, OneRedemption

(* Poll p is in state s after the step, the others are as before.          *)
Moved(p, s) ==
    /\ poll' \in [Polls -> PollStates]
    /\ \A q \in Polls \ {p} : poll'[q] = poll[q]
    /\ poll'[p] = s

LEMMA OnePoll ==
    ASSUME poll \in [Polls -> PollStates], NEW p \in Polls,
           NEW s \in PollStates, poll' = [poll EXCEPT ![p] = s]
    PROVE  Moved(p, s)
BY DEF Moved

(* A poll's own steps keep them: the check does not let a denied poll pass,*)
(* and ConsumeDeviceCode finds the device only if it was never spent.      *)
LEMMA PollMoves ==
    ASSUME DFInv, NEW p \in Polls,
           PollStep(p) \/ \E d \in DeviceCodes : PollGet(p, d)
    PROVE  PollInv'
<1>0. /\ poll \in [Polls -> PollStates] /\ poll[p] \in PollStates
      /\ DOMAIN dcs \subseteq DeviceCodes
      /\ \A d \in DOMAIN dcs : dcs[d] \in DeviceCode
      /\ devices \subseteq DOMAIN dcs
      /\ PollsAreHonest /\ OneRedemption
      /\ \A q \in Polls : poll[q].pc = "lookup" => poll[q].user \in Users
      /\ \A q \in Polls : poll[q].pc \in {"check", "consume"}
                            => poll[q].dev \in DOMAIN dcs
  BY DEF DFInv, DFTypeOK, GSTypeOK
<1>1. ASSUME NEW d \in DeviceCodes, PollGet(p, d) PROVE PollInv'
  <2>1. dcs' = dcs /\ spent' = spent
    BY <1>1 DEF PollGet, GetDeviceCode
  <2>2. poll[p].pc = "idle" /\ poll[p].user = NoUser /\ ~poll[p].denied
    BY <1>0, <1>1 DEF PollGet, PollsAreHonest, PollStates
  <2>3. CASE d \in liveDevices
    <3> DEFINE s == [poll[p] EXCEPT !.pc = "check", !.dev = d,
                                    !.denied = dcs[d].AccessDenied,
                                    !.authorized = dcs[d].UserAuthorized]
    <3>1. d \in DOMAIN dcs /\ dcs[d].AccessDenied \in BOOLEAN
                           /\ dcs[d].UserAuthorized \in BOOLEAN
      BY <1>0, <2>3 DEF liveDevices, DeviceCode
    <3>2. /\ s \in PollStates /\ s.pc = "check" /\ s.dev = d
          /\ s.denied = dcs[d].AccessDenied /\ s.user = NoUser
      BY <1>0, <2>2, <3>1 DEF PollStates
    <3>3. poll' = [poll EXCEPT ![p] = s]
      BY <1>1, <2>3 DEF PollGet
    <3> HIDE DEF s
    <3>4. Moved(p, s)
      BY <1>0, <3>2, <3>3, OnePoll
    <3> QED
      BY <1>0, <2>1, <3>1, <3>2, <3>4
         DEF Moved, PollInv, PollsAreHonest, OneRedemption
  <2>4. CASE d \notin liveDevices
    <3> DEFINE s == [poll[p] EXCEPT !.pc = "done", !.dev = d,
                                    !.answer = "invalid_grant"]
    <3>1. /\ s \in PollStates /\ s.pc = "done" /\ ~s.denied
          /\ s.user = NoUser
      BY <1>0, <2>2 DEF PollStates
    <3>2. poll' = [poll EXCEPT ![p] = s]
      BY <1>1, <2>4 DEF PollGet
    <3> HIDE DEF s
    <3>3. Moved(p, s)
      BY <1>0, <3>1, <3>2, OnePoll
    <3> QED
      BY <1>0, <2>1, <3>1, <3>3
         DEF Moved, PollInv, PollsAreHonest, OneRedemption
  <2> QED
    BY <2>3, <2>4
<1>2. ASSUME dcs' = dcs, spent \subseteq spent',
             NEW answer \in {"ok", "access_denied", "authorization_pending",
                             "invalid_grant", "server_error"},
             PollAnswer(p, answer)
      PROVE  PollInv'
  <2> DEFINE s == [poll[p] EXCEPT !.pc = "done", !.answer = answer]
  <2>1. /\ s \in PollStates /\ s.pc = "done" /\ s.dev = poll[p].dev
        /\ s.denied = poll[p].denied /\ s.user = poll[p].user
    BY <1>0 DEF PollStates
  <2>2. poll' = [poll EXCEPT ![p] = s]
    BY <1>0, <1>2 DEF PollAnswer
  <2> HIDE DEF s
  <2>3. Moved(p, s)
    BY <1>0, <2>1, <2>2, OnePoll
  <2> QED
    BY <1>0, <1>2, <2>1, <2>3 DEF Moved, PollInv, PollsAreHonest, OneRedemption
<1>3. ASSUME PollCheck(p) PROVE PollInv'
  <2>1. dcs' = dcs /\ spent' = spent /\ poll[p].pc = "check"
    BY <1>3 DEF PollCheck, gsVars
  <2>2. ASSUME ~poll[p].denied, poll' = [poll EXCEPT ![p].pc = "consume"]
        PROVE  PollInv'
    <3> DEFINE s == [poll[p] EXCEPT !.pc = "consume"]
    <3>1. /\ s \in PollStates /\ s.pc = "consume" /\ s.dev = poll[p].dev
          /\ s.denied = poll[p].denied /\ s.user = poll[p].user
      BY <1>0 DEF PollStates
    <3>2. poll' = [poll EXCEPT ![p] = s]
      BY <1>0, <2>2
    <3> HIDE DEF s
    <3>3. Moved(p, s)
      BY <1>0, <3>1, <3>2, OnePoll
    <3>4. poll[p].user = NoUser
      BY <1>0, <2>1 DEF PollsAreHonest
    <3> QED
      BY <1>0, <2>1, <2>2, <3>1, <3>3, <3>4
         DEF Moved, PollInv, PollsAreHonest, OneRedemption
  <2>3. poll[p].denied => dcs[poll[p].dev].AccessDenied
    BY <1>0, <2>1 DEF PollsAreHonest
  <2> QED
    BY <1>2, <1>3, <2>1, <2>2, <2>3 DEF PollCheck
<1>4. ASSUME PollConsume(p) PROVE PollInv'
  <2> DEFINE d == poll[p].dev
  <2>1. dcs' = dcs /\ spent \subseteq spent' /\ poll[p].pc = "consume"
    BY <1>4 DEF PollConsume, ConsumeDeviceCode
  <2>2. CASE ~Consumable(d)
    BY <1>2, <1>4, <2>1, <2>2 DEF PollConsume
  <2>3. CASE Consumable(d)
    <3> DEFINE u == dcs[d].userID
               s == [poll[p] EXCEPT !.pc = "lookup", !.user = u]
    <3>1. u \in Users
      BY <2>3, <1>0 DEF Consumable, DFInv, MarksAreApproved
    <3>2. d \notin spent /\ d \in spent'
      BY <1>4, <2>3 DEF PollConsume, ConsumeDeviceCode, Consumable, DFInv,
                        SpentStaysOut
    <3>3. ~poll[p].denied
      BY <1>0, <2>1 DEF PollsAreHonest
    <3>4. /\ s \in PollStates /\ s.pc = "lookup" /\ s.dev = d
          /\ s.denied = poll[p].denied /\ s.user = u
      BY <1>0, <3>1 DEF PollStates
    <3>5. poll' = [poll EXCEPT ![p] = s]
      BY <1>0, <1>4, <2>3 DEF PollConsume
    <3> HIDE DEF s, u
    <3>6. Moved(p, s)
      BY <1>0, <3>4, <3>5, OnePoll
    <3> QED
      BY <1>0, <2>1, <3>1, <3>2, <3>3, <3>4, <3>6
         DEF Moved, PollInv, PollsAreHonest, OneRedemption
  <2> QED
    BY <2>2, <2>3
<1>5. ASSUME PollLookup(p) PROVE PollInv'
  <2>1. dcs' = dcs /\ spent' = spent
    BY <1>5 DEF PollLookup, gsVars
  <2> QED
    BY <1>2, <1>5, <2>1 DEF PollLookup
<1> QED
  BY <1>1, <1>3, <1>4, <1>5 DEF PollStep

(* A restart ends the polls under way without an answer.                   *)
LEMMA PollsLost == ASSUME DFInv, Restart PROVE PollInv'
<1>1. poll \in [Polls -> PollStates]
  BY DEF DFInv, DFTypeOK
<1>2. spent' = spent
  BY DEF Restart, StoreRestart
<1>3. ASSUME NEW p \in Polls
      PROVE  /\ poll'[p] \in PollStates
             /\ poll'[p].pc \in {"idle", "done"}
             /\ poll'[p].pc = "idle" => poll'[p] = poll[p]
             /\ poll'[p].dev = poll[p].dev
             /\ poll'[p].denied = poll[p].denied
             /\ poll'[p].user = poll[p].user
  <2>0. poll[p] \in PollStates
    BY <1>1
  <2>1. CASE poll[p].pc \in {"idle", "done"}
    BY <2>0, <2>1 DEF Restart
  <2>2. CASE poll[p].pc \notin {"idle", "done"}
    <3>1. poll'[p] = [poll[p] EXCEPT !.pc = "done", !.answer = "lost"]
      BY <2>2 DEF Restart
    <3> QED
      BY <2>0, <3>1 DEF PollStates
  <2> QED
    BY <2>1, <2>2
<1>4. poll' \in [Polls -> PollStates]
  BY <1>3 DEF Restart
<1> QED
  BY <1>2, <1>3, <1>4 DEF DFInv, PollInv, PollsAreHonest, OneRedemption

-----------------------------------------------------------------------------
(* The conjuncts about the approval page.                                  *)
ApprovalInv ==
    /\ approval \in [Approvals -> ApprovalStates]
    /\ ApprovalsAreHonest

(* A step that leaves approvals with a mark alone keeps what they approved,*)
(* as the user code of a device object never changes.                      *)
LEMMA ApprovesKept ==
    ASSUME DFInv, [GSNext]_gsVars, NEW a \in Approvals,
           approval[a].marked => approval'[a] = approval[a],
           NEW d \in DOMAIN dcs, NEW u, Approves(a, d, u)
    PROVE  Approves(a, d, u)'
<1>1. GSTypeOK
  BY DEF DFInv, DFTypeOK
<1>2. dcs'[d].userCode = dcs[d].userCode
  BY <1>1, ObjectsKept
<1> QED
  BY <1>2 DEF Approves, normalized

(* The submission's two steps, and the restart, keep the page's states.    *)
LEMMA ApprovalMoves ==
    ASSUME DFInv, [DFNext]_dfVars
    PROVE  /\ ApprovalInv'
           /\ \A a \in Approvals : approval[a].marked => approval'[a] = approval[a]
<1> DEFINE Kept == \A a \in Approvals :
                      approval[a].marked => approval'[a] = approval[a]
<1>0. approval \in [Approvals -> ApprovalStates] /\ ApprovalsAreHonest
  BY DEF DFInv, DFTypeOK
<1>1. ASSUME UNCHANGED approval PROVE ApprovalInv' /\ Kept
  BY <1>0, <1>1 DEF ApprovalInv, ApprovalsAreHonest
<1>2. ASSUME NEW a \in Approvals, NEW s \in ApprovalStates, 
             approval' = [approval EXCEPT ![a] = s], ~approval[a].marked,
             s.pc = "authorize" => s.user \in Users /\ s.typed \in TypedCodes,
             s.marked => s.pc = "done"
      PROVE  ApprovalInv' /\ Kept
  BY <1>0, <1>2 DEF ApprovalInv, ApprovalsAreHonest
<1>3. ASSUME NEW a \in Approvals, NEW typed \in TypedCodes, NEW u \in Users,
             NEW correct \in BOOLEAN, SubmitCredentials(a, typed, u, correct)
      PROVE  ApprovalInv' /\ Kept
  <2>1. approval[a] \in ApprovalStates /\ ~approval[a].marked
    BY <1>0, <1>3 DEF SubmitCredentials, ApprovalsAreHonest
  <2>2. CASE u \in users /\ correct
    <3> DEFINE s == [approval[a] EXCEPT !.pc = "authorize", !.typed = typed,
                                        !.user = u]
    <3>1. /\ s \in ApprovalStates
          /\ s.user = u /\ s.typed = typed /\ s.marked = approval[a].marked
      BY <2>1 DEF ApprovalStates
    <3>2. approval' = [approval EXCEPT ![a] = s]
      BY <1>3, <2>2 DEF SubmitCredentials
    <3> HIDE DEF s
    <3> QED
      BY <1>2, <2>1, <3>1, <3>2
  <2>3. CASE ~(u \in users /\ correct)
    <3> DEFINE s == [approval[a] EXCEPT !.pc = "done", !.page = "invalid"]
    <3>1. s \in ApprovalStates /\ s.pc = "done"
      BY <2>1 DEF ApprovalStates
    <3>2. approval' = [approval EXCEPT ![a] = s]
      BY <1>3, <2>3 DEF SubmitCredentials
    <3> HIDE DEF s
    <3> QED
      BY <1>2, <2>1, <3>1, <3>2
  <2> QED
    BY <2>2, <2>3
<1>4. ASSUME NEW a \in Approvals, ApproveDevice(a)
      PROVE  ApprovalInv' /\ Kept
  <2> DEFINE m == Authorizable(approval[a].typed) # {}
             s == [approval[a] EXCEPT !.pc = "done", !.page = "authorized",
                                      !.marked = m]
  <2>1. approval[a] \in ApprovalStates /\ ~approval[a].marked
    BY <1>0, <1>4 DEF ApproveDevice, ApprovalsAreHonest
  <2>2. approval' = [approval EXCEPT ![a] = s]
    BY <1>0, <1>4 DEF ApproveDevice
  <2>3. m \in BOOLEAN
    OBVIOUS
  <2> HIDE DEF m
  <2>4. s \in ApprovalStates /\ s.pc = "done"
    BY <2>1, <2>3 DEF ApprovalStates
  <2> HIDE DEF s
  <2> QED
    BY <1>2, <2>1, <2>2, <2>4
<1>5. ASSUME Restart PROVE ApprovalInv' /\ Kept
  <2>1. ASSUME NEW a \in Approvals
        PROVE  /\ approval'[a] \in ApprovalStates
               /\ approval'[a].pc # "authorize"
               /\ approval'[a].marked => approval'[a].pc = "done"
               /\ approval[a].marked => approval'[a] = approval[a]
    <3>0. approval[a] \in ApprovalStates
      BY <1>0
    <3>1. CASE approval[a].pc \in {"idle", "done"}
      BY <1>0, <1>5, <3>1 DEF Restart, ApprovalsAreHonest
    <3>2. CASE approval[a].pc \notin {"idle", "done"}
      <4>1. approval'[a] = [approval[a] EXCEPT !.pc = "done", !.page = "lost"]
        BY <1>5, <3>2 DEF Restart
      <4>2. ~approval[a].marked
        BY <1>0, <3>2 DEF ApprovalsAreHonest
      <4> QED
        BY <3>0, <4>1, <4>2 DEF ApprovalStates
    <3> QED
      BY <3>1, <3>2
  <2>2. approval' \in [Approvals -> ApprovalStates]
    BY <1>5, <2>1 DEF Restart
  <2> QED
    BY <2>1, <2>2 DEF ApprovalInv, ApprovalsAreHonest
<1> HIDE DEF Kept
<1>6. ApprovalInv' /\ Kept
  BY <1>1, <1>3, <1>4, <1>5
     DEF DFNext, dfVars, DeviceCodeRequest, Deny, PollGet, PollStep, PollCheck,
         PollConsume, PollLookup, DeleteUser, ClockTick
<1> QED
  BY <1>6 DEF Kept

(* Only ApproveDevice authorizes a device object, and it finds the object  *)
(* through the index entry of the code that was typed.                     *)
LEMMA MarksKept ==
    ASSUME DFInv, [DFNext]_dfVars
    PROVE  MarksAreApproved'
<1>0. /\ GSTypeOK /\ MarksAreApproved /\ UserCodeIndexSound
      /\ \A d \in DOMAIN dcs : dcs[d] \in DeviceCode
      /\ approval \in [Approvals -> ApprovalStates]
  BY DEF DFInv, DFTypeOK, GSTypeOK
<1>1. ASSUME [GSNext]_gsVars,
             \A d \in DOMAIN dcs' : dcs'[d].UserAuthorized =>
                /\ d \in DOMAIN dcs /\ dcs[d].UserAuthorized
                /\ dcs'[d].userID = dcs[d].userID
      PROVE  MarksAreApproved'
  <2> SUFFICES ASSUME NEW d \in DOMAIN dcs', dcs'[d].UserAuthorized
               PROVE  /\ dcs'[d].userID \in Users
                      /\ \E a \in Approvals : Approves(a, d, dcs[d].userID)'
    BY <1>1 DEF MarksAreApproved, Approves
  <2>1. PICK a \in Approvals : Approves(a, d, dcs[d].userID)
    BY <1>0, <1>1 DEF MarksAreApproved
  <2>2. approval[a].marked => approval'[a] = approval[a]
    BY ApprovalMoves
  <2>3. d \in DOMAIN dcs /\ dcs'[d].userID = dcs[d].userID
    BY <1>1
  <2> DEFINE u == dcs[d].userID
  <2>4. Approves(a, d, u)'
    BY <1>1, <2>1, <2>2, <2>3, ApprovesKept
  <2> QED
    BY <1>0, <1>1, <2>4 DEF MarksAreApproved
<1>2. ASSUME NEW d \in DeviceCodes, NEW uc \in UserCodes,
             NEW req \in DeviceRequests, NEW stamp \in 0..now,
             DeviceCodeRequest(d, uc, req, stamp)
      PROVE  MarksAreApproved'
  <2>1. GSNext
    BY <1>2 DEF DeviceCodeRequest, GSNext
  <2>2. ~dcs'[d].UserAuthorized
    BY <1>2 DEF DeviceCodeRequest, SaveDeviceCode, Put
  <2>3. \A e \in DOMAIN dcs' \ {d} : e \in DOMAIN dcs /\ dcs'[e] = dcs[e]
    BY <1>2 DEF DeviceCodeRequest, SaveDeviceCode, Put
  <2> QED
    BY <1>1, <2>1, <2>2, <2>3
<1>3. ASSUME NEW typed \in TypedCodes, Deny(typed) PROVE MarksAreApproved'
  <2>1. GSNext
    BY <1>3 DEF Deny, GSNext
  <2>2. ASSUME NEW o \in DeviceCode
        PROVE  /\ [o EXCEPT !.AccessDenied = TRUE].UserAuthorized
                    = o.UserAuthorized
               /\ [o EXCEPT !.AccessDenied = TRUE].userID = o.userID
    BY DEF DeviceCode
  <2>3. \A d \in DOMAIN dcs' :
          /\ d \in DOMAIN dcs
          /\ dcs'[d].UserAuthorized = dcs[d].UserAuthorized
          /\ dcs'[d].userID = dcs[d].userID
    BY <1>0, <1>3, <2>2 DEF Deny, DenyDeviceCode
  <2> QED
    BY <1>1, <2>1, <2>3
<1>4. ASSUME NEW a \in Approvals, ApproveDevice(a) PROVE MarksAreApproved'
  <2> DEFINE typed == approval[a].typed
             u == approval[a].user
  <2>1. [GSNext]_gsVars /\ typed \in TypedCodes /\ u \in Users
    BY <1>4 DEF ApproveDevice, GSNext, DFInv, ApprovalsAreHonest
  <2>2. /\ DOMAIN dcs' = DOMAIN dcs
        /\ \A d \in DOMAIN dcs : dcs'[d] =
              IF d \in Authorizable(typed)
              THEN [dcs[d] EXCEPT !.UserAuthorized = TRUE, !.userID = u]
              ELSE dcs[d]
    BY <1>4 DEF ApproveDevice, AuthorizeDeviceCode
  <2>3. ASSUME NEW d \in Authorizable(typed)
        PROVE  /\ dcs'[d].userID = u
               /\ Approves(a, d, dcs[d].userID)'
    <3>1. /\ d \in DOMAIN dcs
          /\ normalized(typed) = normalized(dcs[d].userCode)
      BY <1>0 DEF Authorizable, DeviceOf, UserCodeIndexSound, GSTypeOK
    <3>2. dcs'[d].userID = u /\ dcs'[d].userCode = dcs[d].userCode
      BY <1>0, <2>1, <2>2, <3>1 DEF DeviceCode
    <3>3. /\ approval'[a].marked
          /\ approval'[a].user = u
          /\ approval'[a].typed = typed
      BY <1>0, <1>4 DEF ApproveDevice, ApprovalStates
    <3> QED
      BY <3>1, <3>2, <3>3 DEF Approves, normalized
  <2>4. ASSUME NEW d \in DOMAIN dcs, d \notin Authorizable(typed),
               dcs[d].UserAuthorized
        PROVE  \E b \in Approvals : Approves(b, d, dcs[d].userID)'
    <3>1. PICK b \in Approvals : Approves(b, d, dcs[d].userID)
      BY <1>0, <2>4 DEF MarksAreApproved
    <3>2. approval[b].marked => approval'[b] = approval[b]
      BY ApprovalMoves
    <3>3. dcs'[d] = dcs[d]
      BY <2>2, <2>4
    <3> QED
      BY <2>1, <3>1, <3>2, <3>3, ApprovesKept
  <2> SUFFICES ASSUME NEW d \in DOMAIN dcs', dcs'[d].UserAuthorized
               PROVE  /\ dcs'[d].userID \in Users
                      /\ \E b \in Approvals : Approves(b, d, dcs[d].userID)'
    BY DEF MarksAreApproved, Approves
  <2>5. CASE d \in Authorizable(typed)
    BY <2>1, <2>3, <2>5
  <2>6. CASE d \notin Authorizable(typed)
    BY <1>0, <2>2, <2>4, <2>6 DEF MarksAreApproved
  <2> QED
    BY <2>5, <2>6
<1>5. CASE Restart
  <2>1. StoreRestart
    BY <1>5 DEF Restart
  <2>2. DOMAIN dcs' = {}
    BY <2>1 DEF StoreRestart
  <2> QED
    BY <2>2 DEF MarksAreApproved
<1>6. ASSUME UNCHANGED dcs, ~Restart PROVE MarksAreApproved'
  <2>1. [GSNext]_gsVars
    BY <1>6, StoreMoves
  <2> QED
    BY <1>1, <1>6, <2>1
<1> QED
  BY <1>2, <1>3, <1>4, <1>5, <1>6
     DEF DFNext, dfVars, SubmitCredentials, PollGet, GetDeviceCode, PollStep,
         PollCheck, PollConsume, ConsumeDeviceCode, PollLookup, DeleteUser,
         ClockTick, GSTick, gsVars

-----------------------------------------------------------------------------
(* A poll that carries a user carried the same user and device before the  *)
(* step, or has just consumed an authorized device.                        *)
LEMMA PollUsers ==
    ASSUME DFInv, [DFNext]_dfVars, NEW p \in Polls, poll'[p].user # NoUser
    PROVE  /\ poll'[p].dev = poll[p].dev
           /\ \/ poll'[p].user = poll[p].user
              \/ /\ [GSNext]_gsVars
                 /\ poll[p].dev \in DOMAIN dcs
                 /\ dcs[poll[p].dev].UserAuthorized
                 /\ poll'[p].user = dcs[poll[p].dev].userID
<1>0. /\ poll \in [Polls -> PollStates] /\ PollsAreHonest
      /\ devices \subseteq DOMAIN dcs
  BY DEF DFInv, DFTypeOK, GSTypeOK
<1>1. ASSUME NEW q \in Polls, NEW d \in DeviceCodes, PollGet(q, d)
      PROVE  p # q /\ poll'[p] = poll[p]
  BY <1>0, <1>1 DEF PollGet, PollsAreHonest, PollStates
<1>2. ASSUME NEW q \in Polls, NEW answer, PollAnswer(q, answer)
      PROVE  poll'[p].user = poll[p].user /\ poll'[p].dev = poll[p].dev
  BY <1>0, <1>2 DEF PollAnswer, PollStates
<1>3. ASSUME NEW q \in Polls, PollCheck(q)
      PROVE  poll'[p].user = poll[p].user /\ poll'[p].dev = poll[p].dev
  BY <1>0, <1>2, <1>3 DEF PollCheck, PollStates
<1>4. ASSUME NEW q \in Polls, PollLookup(q)
      PROVE  poll'[p].user = poll[p].user /\ poll'[p].dev = poll[p].dev
  BY <1>2, <1>4 DEF PollLookup
<1>5. ASSUME NEW q \in Polls, PollConsume(q)
      PROVE  /\ poll'[p].dev = poll[p].dev
             /\ \/ poll'[p].user = poll[p].user
                \/ /\ poll[p].dev \in DOMAIN dcs
                   /\ dcs[poll[p].dev].UserAuthorized
                   /\ poll'[p].user = dcs[poll[p].dev].userID
  <2>1. CASE ~Consumable(poll[q].dev)
    BY <1>2, <1>5, <2>1 DEF PollConsume
  <2>2. CASE Consumable(poll[q].dev)
    BY <1>0, <1>5, <2>2 DEF PollConsume, Consumable, PollStates
  <2> QED
    BY <2>1, <2>2
<1>6. ASSUME Restart
      PROVE  poll'[p].user = poll[p].user /\ poll'[p].dev = poll[p].dev
  BY <1>0, <1>6 DEF Restart, PollStates
<1>7. \/ \E q \in Polls, d \in DeviceCodes : PollGet(q, d)
      \/ \E q \in Polls : PollStep(q)
      \/ Restart
      \/ UNCHANGED poll
  BY DEF DFNext, dfVars, DeviceCodeRequest, Deny, SubmitCredentials,
         ApproveDevice, DeleteUser, ClockTick
<1>8. \A q \in Polls : PollConsume(q) => GSNext
  BY DEF PollConsume, GSNext, DFInv, DFTypeOK, GSTypeOK
<1> QED
  BY <1>1, <1>3, <1>4, <1>5, <1>6, <1>7, <1>8 DEF PollStep

(* Whoever a poll has a user from has approved its device: the device was  *)
(* marked for that user when the poll consumed it, its user code never     *)
(* changes, and after a restart no object has its device code again.       *)
LEMMA TokensKept ==
    ASSUME DFInv, [DFNext]_dfVars
    PROVE  TokensForApprover'
<1>0. /\ GSTypeOK /\ MarksAreApproved /\ TokensForApprover /\ PollsAreHonest
      /\ spent \subseteq used
      /\ \A a \in Approvals : approval[a].marked => approval'[a] = approval[a]
  BY ApprovalMoves DEF DFInv, DFTypeOK, GSTypeOK
<1> SUFFICES ASSUME NEW p \in Polls, poll'[p].user # NoUser
             PROVE  \E a \in Approvals :
                      /\ approval'[a].marked
                      /\ approval'[a].user = poll'[p].user
                      /\ poll'[p].dev \in DOMAIN dcs' =>
                           normalized(approval'[a].typed)
                             = normalized(dcs'[poll'[p].dev].userCode)
  BY DEF TokensForApprover, normalized
<1> DEFINE d == poll[p].dev
<1>1. poll'[p].dev = d
  BY PollUsers
<1>2. CASE poll'[p].user = poll[p].user
  <2>1. PICK a \in Approvals :
          /\ approval[a].marked
          /\ approval[a].user = poll[p].user
          /\ d \in DOMAIN dcs =>
               normalized(approval[a].typed) = normalized(dcs[d].userCode)
    BY <1>0, <1>2 DEF TokensForApprover
  <2>2. d \in DOMAIN dcs' => d \in DOMAIN dcs /\ dcs'[d].userCode = dcs[d].userCode
    <3>1. d \in used
      BY <1>0, <1>2 DEF PollsAreHonest
    <3>2. CASE [GSNext]_gsVars
      BY <1>0, <3>1, <3>2, ObjectsKept
    <3>3. CASE Restart
      <4>1. StoreRestart
        BY <3>3 DEF Restart
      <4> QED
        BY <4>1 DEF StoreRestart
    <3> QED
      BY <3>2, <3>3, StoreMoves
  <2>3. approval'[a] = approval[a]
    BY <1>0, <2>1
  <2> QED
    BY <1>1, <1>2, <2>1, <2>2, <2>3
<1>3. CASE poll'[p].user # poll[p].user
  <2>1. /\ [GSNext]_gsVars /\ d \in DOMAIN dcs
        /\ dcs[d].UserAuthorized /\ poll'[p].user = dcs[d].userID
    BY <1>3, PollUsers
  <2>2. PICK a \in Approvals : Approves(a, d, dcs[d].userID)
    BY <1>0, <2>1 DEF MarksAreApproved
  <2>3. approval'[a] = approval[a]
    BY <1>0, <2>2 DEF Approves
  <2>4. dcs'[d].userCode = dcs[d].userCode
    BY <1>0, <2>1, ObjectsKept
  <2> QED
    BY <1>1, <2>1, <2>2, <2>3, <2>4 DEF Approves
<1> QED
  BY <1>2, <1>3

-----------------------------------------------------------------------------
(* A new server has no polls, no submissions and an empty store.           *)
LEMMA DFInvInit == DFInit => DFInv
<1> SUFFICES ASSUME DFInit PROVE DFInv
  OBVIOUS
<1>1. NewPoll \in PollStates /\ NewApproval \in ApprovalStates
  BY DEF NewPoll, NewApproval, PollStates, ApprovalStates
<1>2. /\ \A p \in Polls : poll[p] = NewPoll
      /\ \A a \in Approvals : approval[a] = NewApproval
  BY DEF DFInit
<1>3. /\ NewPoll.pc = "idle" /\ NewPoll.user = NoUser /\ ~NewPoll.denied
      /\ NewApproval.pc = "idle" /\ ~NewApproval.marked
  BY DEF NewPoll, NewApproval
<1>4. DFTypeOK
  BY <1>1, <1>2, <1>3, TypeInit, DeviceFlowAssumption DEF DFInit, DFTypeOK
<1>5. SpentStaysOut /\ UserCodeIndexSound /\ DOMAIN dcs = {}
  BY DEF DFInit, GSInit, NewStore, SpentStaysOut, UserCodeIndexSound
<1> QED
  BY <1>2, <1>3, <1>4, <1>5
     DEF DFInv, PollsAreHonest, ApprovalsAreHonest, MarksAreApproved,
         OneRedemption, TokensForApprover

(* Every step keeps the invariant.                                         *)
LEMMA DFInvStep == DFInv /\ [DFNext]_dfVars => DFInv'
<1> SUFFICES ASSUME DFInv, [DFNext]_dfVars PROVE DFInv'
  OBVIOUS
<1>1. PollInv'
  <2>1. \/ \E p \in Polls :
              PollStep(p) \/ \E d \in DeviceCodes : PollGet(p, d)
        \/ Restart
        \/ UNCHANGED poll /\ restarts' = restarts
    BY DEF DFNext, dfVars, DeviceCodeRequest, Deny, SubmitCredentials,
           ApproveDevice, DeleteUser, ClockTick
  <2>2. CASE UNCHANGED poll /\ restarts' = restarts
    <3>0. restarts \in Nat
      BY DEF DFInv, DFTypeOK
    <3>1. ~Restart
      <4>1. Restart => restarts' = restarts + 1
        BY DEF Restart
      <4> QED
        BY <2>2, <3>0, <4>1
    <3> QED
      BY <2>2, <3>1, StoreMoves, PollFrame
  <2> QED
    BY <2>1, <2>2, PollMoves, PollsLost
<1>2. users' \subseteq Users /\ restarts' \in 0..MaxRestarts
  <2>1. users \subseteq Users /\ restarts \in 0..MaxRestarts
    BY DEF DFInv, DFTypeOK
  <2>2. CASE Restart
    <3>1. /\ users' = users
          /\ restarts < MaxRestarts /\ restarts' = restarts + 1
      BY <2>2 DEF Restart
    <3> QED
      BY <2>1, <3>1, DeviceFlowAssumption
  <2>3. CASE \E u \in users : DeleteUser(u)
    BY <2>1, <2>3 DEF DeleteUser
  <2>4. CASE UNCHANGED <<users, restarts>>
    BY <2>1, <2>4
  <2> QED
    BY <2>2, <2>3, <2>4
       DEF DFNext, dfVars, DeviceCodeRequest, Deny, SubmitCredentials,
           ApproveDevice, PollGet, PollStep, PollCheck, PollConsume,
           PollLookup, ClockTick
<1> QED
  BY <1>1, <1>2, StoreKept, ApprovalMoves, MarksKept, TokensKept
     DEF DFInv, DFTypeOK, PollInv, ApprovalInv

LEMMA DFInvHolds == DFSpec => []DFInv
BY DFInvInit, DFInvStep, PTL DEF DFSpec

(* The requests of the device flow are well formed: a poll past            *)
(* ConsumeDeviceCode has a user, and one before it a device object.        *)
THEOREM DeviceFlowTyping == DFSpec => []DFTypeOK
<1>1. DFInv => DFTypeOK
  BY DEF DFInv
<1> QED
  BY <1>1, DFInvHolds, PTL

(* However many polls race for a device, with approvals, denials, expiry   *)
(* and restarts in between, one of them at most redeems its code.          *)
THEOREM RedeemedOnce == DFSpec => []OneRedemption
<1>1. DFInv => OneRedemption
  BY DEF DFInv
<1> QED
  BY <1>1, DFInvHolds, PTL

(* handleDeviceCodeToken never issues tokens to a poll whose device was    *)
(* denied when it began, whatever the unlocked reads return.               *)
THEOREM DenialRespected == DFSpec => []DenialSticks
<1>1. DFInv => DenialSticks
  BY DEF DFInv, PollsAreHonest, DenialSticks
<1> QED
  BY <1>1, DFInvHolds, PTL

(* The user of a device's tokens is one who typed the device's own code and*)
(* right credentials, for any number of devices that share user codes.     *)
THEOREM ApproverGetsTokens == DFSpec => []TokensForApprover
<1>1. DFInv => TokensForApprover
  BY DEF DFInv
<1> QED
  BY <1>1, DFInvHolds, PTL
=============================================================================
