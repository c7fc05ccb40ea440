----------------------------- MODULE GrantStore -----------------------------
(***************************************************************************)
(* The in-memory grant store, internal/grants/store.go: authorization      *)
(* codes, refresh tokens and device codes with their user-code index.      *)
(*                                                                         *)
(* Every method runs under the store's mutex, so a method is one action.   *)
(* The exception is the deadline of a Save method: it is computed from     *)
(* time.Now() before the mutex is taken, so a Save action has the clock    *)
(* reading as a parameter and the clock may have advanced since.           *)
(*                                                                         *)
(* Device codes are stored and returned as pointers that callers keep after*)
(* the mutex is released, so the objects (dcs) are separate from the map   *)
(* that holds their keys (devices).                                        *)
(***************************************************************************)
EXTENDS Runtime

CONSTANTS
    Codes,           \* authorization code strings (uuids)
    RefreshTokens,   \* refresh token strings (uuids)
    DeviceCodes,     \* device code strings (uuids)
    UserCodes,       \* the letters of a user code, without case and hyphen
    AuthCodes,       \* contents of an AuthCode, without its deadline
    RefreshGrants,   \* contents of a RefreshGrant, without its deadline
    DeviceRequests,  \* client, scope and audience of a DeviceCode
    NoUser,          \* the empty UserID of a device code nobody approved
    CodeTTL, RefreshTTL, DeviceTTL

ASSUME TimeAssumption ==
    /\ CodeTTL \in Nat \ {0}
    /\ RefreshTTL \in Nat \ {0}
    /\ DeviceTTL \in Nat \ {0}

\* The handlers prefix their uuids with "ac_", "rt_" and "dc_".
ASSUME NameAssumption ==
    /\ Codes \cap RefreshTokens = {}
    /\ Codes \cap DeviceCodes = {}
    /\ RefreshTokens \cap DeviceCodes = {}

ASSUME UserAssumption == NoUser \notin Users

VARIABLES
    codes,      \* Store.codes: code -> [grant, expiresAt]
    refresh,    \* Store.refresh: token -> [grant, expiresAt]
    dcs,        \* every DeviceCode object allocated, by its device code
    devices,    \* keys of Store.devices
    userCodes,  \* Store.userCodes: normalized user code -> device code
    used,       \* history: every code, token and device code ever saved
    spent       \* history: those handed out by Consume or removed by Revoke

gsVars == <<now, codes, refresh, dcs, devices, userCodes, used, spent>>

-----------------------------------------------------------------------------
(* A user code as a person may type it.  randomUserCode shows "ABCD-EFGH". *)
Spellings == {"shown", "lower", "bare"}
TypedCodes == [letters : UserCodes, spelling : Spellings]
Shown(uc) == [letters |-> uc, spelling |-> "shown"]

\* Slip: the hyphen and the case are kept.
normalizedNot(typed) == typed

\* strings.ToUpper(strings.ReplaceAll(userCode, "-", ""))
normalized(typed) == [typed EXCEPT !.spelling = "bare"]

\* AuthCode and RefreshGrant as stored.
Entries(Grants) == [grant : Grants, expiresAt : Nat]

DeviceCode ==
    [userCode : TypedCodes, request : DeviceRequests,
     userID : Users \cup {NoUser}, expiresAt : Nat,
     UserAuthorized : BOOLEAN, AccessDenied : BOOLEAN]

-----------------------------------------------------------------------------
NewStore ==
    /\ codes = << >>
    /\ refresh = << >>
    /\ dcs = << >>
    /\ devices = {}
    /\ userCodes = << >>

GSInit ==
    /\ now = 0
    /\ NewStore
    /\ used = {}
    /\ spent = {}

SaveCode(code, ac, stamp) ==
    /\ codes' = Put(CleanExpired(codes), code,
                    [grant |-> ac, expiresAt |-> stamp + CodeTTL])
    /\ used' = used \cup {code}
    /\ UNCHANGED <<now, refresh, dcs, devices, userCodes, spent>>

\* What ConsumeCode and ConsumeRefreshToken report as their second result.
Redeemable(m, k) == k \in DOMAIN m /\ ~Expired(m[k].expiresAt)

\* Slip: only an expired code is deleted.
ConsumeCodeKeeps(code) ==
    /\ codes' = IF Redeemable(codes, code) THEN codes
                ELSE Without(codes, {code})
    /\ spent' = IF Redeemable(codes, code) THEN spent \cup {code} ELSE spent
    /\ UNCHANGED <<now, refresh, dcs, devices, userCodes, used>>

\* An expired code is deleted too, and reported like an unknown one.
ConsumeCode(code) ==
    /\ codes' = Without(codes, {code})
    /\ spent' = IF Redeemable(codes, code) THEN spent \cup {code} ELSE spent
    /\ UNCHANGED <<now, refresh, dcs, devices, userCodes, used>>

SaveRefreshToken(tok, rg, stamp) ==
    /\ refresh' = Put(CleanExpired(refresh), tok,
                      [grant |-> rg, expiresAt |-> stamp + RefreshTTL])
    /\ used' = used \cup {tok}
    /\ UNCHANGED <<now, codes, dcs, devices, userCodes, spent>>

\* Slip: rotation leaves the old token in place.
ConsumeRefreshTokenKeeps(tok) ==
    /\ refresh' = refresh
    /\ spent' = IF Redeemable(refresh, tok) THEN spent \cup {tok} ELSE spent
    /\ UNCHANGED <<now, codes, dcs, devices, userCodes, used>>

ConsumeRefreshToken(tok) ==
    /\ refresh' = Without(refresh, {tok})
    /\ spent' = IF Redeemable(refresh, tok) THEN spent \cup {tok} ELSE spent
    /\ UNCHANGED <<now, codes, dcs, devices, userCodes, used>>

\* Revocation does not look at the deadline.
RevokeRefreshToken(tok) ==
    /\ refresh' = Without(refresh, {tok})
    /\ spent' = IF tok \in DOMAIN refresh THEN spent \cup {tok} ELSE spent
    /\ UNCHANGED <<now, codes, dcs, devices, userCodes, used>>

-----------------------------------------------------------------------------
\* Slip: the clean-up leaves the index entries of the devices it deletes.
cleanedUserCodesNot == userCodes

\* cleanExpiredDevicesLocked (the Expired field is never set in this program)
expiredDevices == {d \in devices : Expired(dcs[d].expiresAt)}
liveDevices == devices \ expiredDevices
cleanedUserCodes ==
    Without(userCodes, {normalized(dcs[d].userCode) : d \in expiredDevices})

\* Slip: the lifetime is subtracted from the clock.
SaveDeviceCodePast(d, typed, req, stamp) ==
    /\ dcs' = Put(dcs, d, [userCode |-> typed, request |-> req,
                           userID |-> NoUser, expiresAt |-> stamp - DeviceTTL,
                           UserAuthorized |-> FALSE, AccessDenied |-> FALSE])
    /\ devices' = liveDevices \cup {d}
    /\ userCodes' = Put(cleanedUserCodes, normalized(typed), d)
    /\ used' = used \cup {d}
    /\ UNCHANGED <<now, codes, refresh, spent>>

SaveDeviceCode(d, typed, req, stamp) ==
    /\ dcs' = Put(dcs, d, [userCode |-> typed, request |-> req,
                           userID |-> NoUser, expiresAt |-> stamp + DeviceTTL,
                           UserAuthorized |-> FALSE, AccessDenied |-> FALSE])
    /\ devices' = liveDevices \cup {d}
    /\ userCodes' = Put(cleanedUserCodes, normalized(typed), d)
    /\ used' = used \cup {d}
    /\ UNCHANGED <<now, codes, refresh, spent>>

\* GetDeviceCode returns dcs[d] exactly when d is a live device.
GetDeviceCode(d) ==
    /\ devices' = liveDevices
    /\ userCodes' = cleanedUserCodes
    /\ UNCHANGED <<now, codes, refresh, dcs, used, spent>>

\* The device a typed code leads to (at most one).
DeviceOf(typed) ==
    {d \in devices : /\ normalized(typed) \in DOMAIN userCodes
                     /\ userCodes[normalized(typed)] = d}

\* Slip: any pending device is marked, whatever code was typed.
AuthorizableAny(typed) == {d \in devices : ~Expired(dcs[d].expiresAt)}

\* The devices AuthorizeDeviceCode would mark: its Boolean result is
\* whether there is one.
Authorizable(typed) == {d \in DeviceOf(typed) : ~Expired(dcs[d].expiresAt)}

\* Slip: the approving user is not recorded.
AuthorizeDeviceCodeNoUser(typed, user) ==
    /\ dcs' = [d \in DOMAIN dcs |->
                 IF d \in Authorizable(typed)
                 THEN [dcs[d] EXCEPT !.UserAuthorized = TRUE]
                 ELSE dcs[d]]
    /\ UNCHANGED <<now, codes, refresh, devices, userCodes, used, spent>>

AuthorizeDeviceCode(typed, user) ==
    /\ dcs' = [d \in DOMAIN dcs |->
                 IF d \in Authorizable(typed)
                 THEN [dcs[d] EXCEPT !.UserAuthorized = TRUE, !.userID = user]
                 ELSE dcs[d]]
    /\ UNCHANGED <<now, codes, refresh, devices, userCodes, used, spent>>

\* Denial does not look at the deadline.
DenyDeviceCode(typed) ==
    /\ dcs' = [d \in DOMAIN dcs |->
                 IF d \in DeviceOf(typed)
                 THEN [dcs[d] EXCEPT !.AccessDenied = TRUE]
                 ELSE dcs[d]]
    /\ UNCHANGED <<now, codes, refresh, devices, userCodes, used, spent>>

\* The second result of ConsumeDeviceCode.  AccessDenied is not consulted.
Consumable(d) ==
    d \in devices /\ dcs[d].UserAuthorized /\ ~Expired(dcs[d].expiresAt)

ConsumeDeviceCode(d) ==
    /\ IF Consumable(d)
       THEN /\ devices' = devices \ {d}
            /\ userCodes' = Without(userCodes, {normalized(dcs[d].userCode)})
            /\ spent' = spent \cup {d}
       ELSE UNCHANGED <<devices, userCodes, spent>>
    /\ UNCHANGED <<now, codes, refresh, dcs, used>>

-----------------------------------------------------------------------------
GSTick ==
    /\ Tick
    /\ UNCHANGED <<codes, refresh, dcs, devices, userCodes, used, spent>>

\* A new process starts with an empty store; uuids are still never reused.
\* (Taken by the modules that model requests, which a restart drops as well.)
StoreRestart ==
    /\ codes' = << >>
    /\ refresh' = << >>
    /\ dcs' = << >>
    /\ devices' = {}
    /\ userCodes' = << >>
    /\ UNCHANGED <<now, used, spent>>

\* The store under arbitrary callers that save only fresh uuids.
GSNext ==
    \/ \E c \in Codes \ used, ac \in AuthCodes, stamp \in 0..now :
           SaveCode(c, ac, stamp)
    \/ \E c \in Codes : ConsumeCode(c)
    \/ \E t \in RefreshTokens \ used, rg \in RefreshGrants, stamp \in 0..now :
           SaveRefreshToken(t, rg, stamp)
    \/ \E t \in RefreshTokens : ConsumeRefreshToken(t)
    \/ \E t \in RefreshTokens : RevokeRefreshToken(t)
    \/ \E d \in DeviceCodes \ used, uc \in UserCodes, req \in DeviceRequests,
          stamp \in 0..now :
           SaveDeviceCode(d, Shown(uc), req, stamp)
    \/ \E d \in DeviceCodes : GetDeviceCode(d)
    \/ \E typed \in TypedCodes, u \in Users : AuthorizeDeviceCode(typed, u)
    \/ \E typed \in TypedCodes : DenyDeviceCode(typed)
    \/ \E d \in DeviceCodes : ConsumeDeviceCode(d)
    \/ GSTick

GSSpec == GSInit /\ [][GSNext]_gsVars

-----------------------------------------------------------------------------
(* The type invariant: what each map, index and history set of the store   *)
(* can hold.                                                               *)
GSTypeOK ==
    /\ now \in Nat
    /\ DOMAIN codes \subseteq Codes
    /\ \A c \in DOMAIN codes : codes[c] \in Entries(AuthCodes)
    /\ DOMAIN refresh \subseteq RefreshTokens
    /\ \A t \in DOMAIN refresh : refresh[t] \in Entries(RefreshGrants)
    /\ DOMAIN dcs \subseteq DeviceCodes
    /\ \A d \in DOMAIN dcs : dcs[d] \in DeviceCode
    /\ devices \subseteq DOMAIN dcs
    /\ DOMAIN userCodes \subseteq TypedCodes
    /\ \A k \in DOMAIN userCodes : userCodes[k] \in DOMAIN dcs
    /\ used \subseteq Codes \cup RefreshTokens \cup DeviceCodes
    /\ spent \subseteq used
    /\ DOMAIN codes \cup DOMAIN refresh \cup DOMAIN dcs \subseteq used

(* ConsumeCode, ConsumeRefreshToken, ConsumeDeviceCode and                 *)
(* RevokeRefreshToken are final: what one of them took out of the store is *)
(* never in it again, whatever saves and cleanups other callers run.       *)
SpentStaysOut ==
    spent \cap (DOMAIN codes \cup DOMAIN refresh \cup devices) = {}

(* The cleanups that piggyback on other callers' operations drop nothing   *)
(* that is still good: an entry leaves the store only because a caller     *)
(* consumed or revoked it or because its own deadline has passed.          *)
NoEarlyDrop ==
    [][/\ \A c \in DOMAIN codes \ DOMAIN codes' :
             c \in spent' \/ Expired(codes[c].expiresAt)
       /\ \A t \in DOMAIN refresh \ DOMAIN refresh' :
             t \in spent' \/ Expired(refresh[t].expiresAt)
       /\ \A d \in devices \ devices' :
             d \in spent' \/ Expired(dcs[d].expiresAt)]_gsVars

(* The two device maps agree, even when randomUserCode repeats a code: the *)
(* index only leads to a stored device, and to one that was shown that     *)
(* code.  (SaveDeviceCode overwrites, and cleanup and ConsumeDeviceCode    *)
(* delete, index entries by user code, not by device.)                     *)
UserCodeIndexSound ==
    \A k \in DOMAIN userCodes :
        /\ userCodes[k] \in devices
        /\ k = normalized(dcs[userCodes[k]].userCode)

(* A device whose user code no other device was given can be found by any  *)
(* spelling of that code for as long as it is stored.                      *)
UserCodeIndexComplete ==
    \A d \in devices :
        (\A e \in DOMAIN dcs \ {d} : dcs[e].userCode # dcs[d].userCode)
        => \A sp \in Spellings :
              DeviceOf([dcs[d].userCode EXCEPT !.spelling = sp]) = {d}
=============================================================================
