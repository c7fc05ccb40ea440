-------------------------- MODULE GrantStoreProofs --------------------------
(* Proofs about GrantStore, for every size of its sets and every TTL.      *)
EXTENDS GrantStore, TLAPS

(* The new store is empty.                                                 *)
LEMMA TypeInit == GSInit => GSTypeOK
BY DEF GSInit, NewStore, GSTypeOK

(* Every object a device method writes is a DeviceCode.                    *)
LEMMA DeviceObjects ==
    ASSUME GSTypeOK
    PROVE  /\ \A typed \in TypedCodes, req \in DeviceRequests, s \in Nat :
                [userCode |-> typed, request |-> req, userID |-> NoUser,
                 expiresAt |-> s + DeviceTTL, UserAuthorized |-> FALSE,
                 AccessDenied |-> FALSE] \in DeviceCode
           /\ \A d \in DOMAIN dcs, u \in Users :
                [dcs[d] EXCEPT !.UserAuthorized = TRUE, !.userID = u]
                    \in DeviceCode
           /\ \A d \in DOMAIN dcs :
                [dcs[d] EXCEPT !.AccessDenied = TRUE] \in DeviceCode
<1>1. \A d \in DOMAIN dcs : dcs[d] \in DeviceCode
  BY DEF GSTypeOK
<1>2. \A typed \in TypedCodes, req \in DeviceRequests, s \in Nat :
        [userCode |-> typed, request |-> req, userID |-> NoUser,
         expiresAt |-> s + DeviceTTL, UserAuthorized |-> FALSE,
         AccessDenied |-> FALSE] \in DeviceCode
  BY TimeAssumption DEF DeviceCode
<1>3. ASSUME NEW o \in DeviceCode, NEW u \in Users
      PROVE  /\ [o EXCEPT !.UserAuthorized = TRUE, !.userID = u] \in DeviceCode
             /\ [o EXCEPT !.AccessDenied = TRUE] \in DeviceCode
  BY DEF DeviceCode
<1>4. ASSUME NEW o \in DeviceCode
      PROVE  [o EXCEPT !.AccessDenied = TRUE] \in DeviceCode
  BY DEF DeviceCode
<1> QED
  BY <1>1, <1>2, <1>3, <1>4

(* A normalized code is a possible spelling of the same letters.           *)
LEMMA NormalizedType ==
    \A typed \in TypedCodes : normalized(typed) \in TypedCodes
BY DEF TypedCodes, Spellings, normalized

LEMMA ShownType == \A uc \in UserCodes : Shown(uc) \in TypedCodes
BY DEF TypedCodes, Spellings, Shown

(* Each method preserves the type invariant.                               *)
LEMMA TypeStep == GSTypeOK /\ [GSNext]_gsVars => GSTypeOK'
<1> SUFFICES ASSUME GSTypeOK, [GSNext]_gsVars PROVE GSTypeOK'
  OBVIOUS
<1> USE TimeAssumption
<1>1. ASSUME NEW c \in Codes \ used, NEW ac \in AuthCodes,
             NEW stamp \in 0..now, SaveCode(c, ac, stamp)
      PROVE  GSTypeOK'
  <2>0. stamp \in Nat
    BY DEF GSTypeOK
  <2>1. /\ DOMAIN codes' \subseteq Codes
        /\ \A x \in DOMAIN codes' : codes'[x] \in Entries(AuthCodes)
        /\ DOMAIN codes' \subseteq DOMAIN codes \cup {c}
    BY <2>0, <1>1 DEF SaveCode, GSTypeOK, Entries, Put, CleanExpired, Without,
                      Restrict
  <2> QED
    BY <1>1, <2>1 DEF SaveCode, GSTypeOK
<1>2. ASSUME NEW c \in Codes, ConsumeCode(c)
      PROVE  GSTypeOK'
  BY <1>2 DEF ConsumeCode, GSTypeOK, Redeemable, Without, Restrict
<1>3. ASSUME NEW t \in RefreshTokens \ used, NEW rg \in RefreshGrants,
             NEW stamp \in 0..now, SaveRefreshToken(t, rg, stamp)
      PROVE  GSTypeOK'
  <2>0. stamp \in Nat
    BY DEF GSTypeOK
  <2>1. /\ DOMAIN refresh' \subseteq RefreshTokens
        /\ \A x \in DOMAIN refresh' : refresh'[x] \in Entries(RefreshGrants)
        /\ DOMAIN refresh' \subseteq DOMAIN refresh \cup {t}
    BY <2>0, <1>3 DEF SaveRefreshToken, GSTypeOK, Entries, Put, CleanExpired, Without,
                      Restrict
  <2> QED
    BY <1>3, <2>1 DEF SaveRefreshToken, GSTypeOK
<1>4. ASSUME NEW t \in RefreshTokens, ConsumeRefreshToken(t)
      PROVE  GSTypeOK'
  BY <1>4 DEF ConsumeRefreshToken, GSTypeOK, Redeemable, Without, Restrict
<1>5. ASSUME NEW t \in RefreshTokens, RevokeRefreshToken(t)
      PROVE  GSTypeOK'
  BY <1>5 DEF RevokeRefreshToken, GSTypeOK, Without, Restrict
<1>6. ASSUME NEW d \in DeviceCodes \ used, NEW uc \in UserCodes,
             NEW req \in DeviceRequests, NEW stamp \in 0..now,
             SaveDeviceCode(d, Shown(uc), req, stamp)
      PROVE  GSTypeOK'
  <2> DEFINE obj == [userCode |-> Shown(uc), request |-> req,
                     userID |-> NoUser, expiresAt |-> stamp + DeviceTTL,
                     UserAuthorized |-> FALSE, AccessDenied |-> FALSE]
             key == normalized(Shown(uc))
  <2>0. stamp \in Nat
    BY DEF GSTypeOK
  <2>1. obj \in DeviceCode
    BY <2>0, DeviceObjects, ShownType
  <2>2. key \in TypedCodes
    BY NormalizedType, ShownType
  <2>3. dcs' = Put(dcs, d, obj) /\ userCodes' = Put(cleanedUserCodes, key, d)
    BY <1>6 DEF SaveDeviceCode
  <2> HIDE DEF obj, key
  <2>4. /\ DOMAIN dcs' = DOMAIN dcs \cup {d}
        /\ \A x \in DOMAIN dcs' : dcs'[x] \in DeviceCode
    BY <2>1, <2>3 DEF Put, GSTypeOK
  <2>5. /\ DOMAIN userCodes' \subseteq TypedCodes
        /\ \A k \in DOMAIN userCodes' : userCodes'[k] \in DOMAIN dcs'
    BY <2>2, <2>3, <2>4 DEF Put, cleanedUserCodes, Without, Restrict, GSTypeOK
  <2> QED
    BY <1>6, <2>4, <2>5 DEF SaveDeviceCode, GSTypeOK, liveDevices
<1>7. ASSUME NEW d \in DeviceCodes, GetDeviceCode(d)
      PROVE  GSTypeOK'
  BY <1>7 DEF GetDeviceCode, GSTypeOK, liveDevices, cleanedUserCodes,
              Without, Restrict
<1>8. ASSUME NEW typed \in TypedCodes, NEW u \in Users,
             AuthorizeDeviceCode(typed, u)
      PROVE  GSTypeOK'
  <2>1. /\ DOMAIN dcs' = DOMAIN dcs
        /\ \A x \in DOMAIN dcs' : dcs'[x] \in DeviceCode
    BY <1>8, DeviceObjects DEF AuthorizeDeviceCode, GSTypeOK
  <2> QED
    BY <1>8, <2>1 DEF AuthorizeDeviceCode, GSTypeOK
<1>9. ASSUME NEW typed \in TypedCodes, DenyDeviceCode(typed)
      PROVE  GSTypeOK'
  <2>1. /\ DOMAIN dcs' = DOMAIN dcs
        /\ \A x \in DOMAIN dcs' : dcs'[x] \in DeviceCode
    BY <1>9, DeviceObjects DEF DenyDeviceCode, GSTypeOK
  <2> QED
    BY <1>9, <2>1 DEF DenyDeviceCode, GSTypeOK
<1>10. ASSUME NEW d \in DeviceCodes, ConsumeDeviceCode(d)
       PROVE  GSTypeOK'
  BY <1>10 DEF ConsumeDeviceCode, Consumable, GSTypeOK, Without, Restrict
<1>11. CASE GSTick
  BY <1>11 DEF GSTick, Tick, GSTypeOK
<1>12. CASE UNCHANGED gsVars
  BY <1>12 DEF gsVars, GSTypeOK
<1> QED
  BY <1>1, <1>2, <1>3, <1>4, <1>5, <1>6, <1>7, <1>8, <1>9, <1>10, <1>11,
     <1>12 DEF GSNext

(* Type correctness: every map of the store keeps well-formed entries      *)
(* under its own kind of key, the device maps name only allocated objects, *)
(* and nothing is stored that was not saved under a fresh uuid.            *)
THEOREM StoreTyping == GSSpec => []GSTypeOK
<1>1. GSInit => GSTypeOK
  BY TypeInit
<1>2. GSTypeOK /\ [GSNext]_gsVars => GSTypeOK'
  BY TypeStep
<1> QED
  BY <1>1, <1>2, PTL DEF GSSpec

-----------------------------------------------------------------------------
(* No method brings back what was spent: saves use fresh uuids, and the    *)
(* three kinds of names do not overlap.                                    *)
LEMMA SpentStep ==
    GSTypeOK /\ SpentStaysOut /\ [GSNext]_gsVars => SpentStaysOut'
<1> SUFFICES ASSUME GSTypeOK, SpentStaysOut, [GSNext]_gsVars
             PROVE  SpentStaysOut'
  OBVIOUS
<1> USE NameAssumption DEF GSTypeOK, SpentStaysOut
<1>1. ASSUME NEW c \in Codes \ used, NEW ac \in AuthCodes,
             NEW stamp \in 0..now, SaveCode(c, ac, stamp)
      PROVE  SpentStaysOut'
  <2>1. DOMAIN codes' \subseteq DOMAIN codes \cup {c}
    BY <1>1 DEF SaveCode, Put, CleanExpired, Without, Restrict
  <2> QED
    BY <1>1, <2>1 DEF SaveCode
<1>2. ASSUME NEW c \in Codes, ConsumeCode(c)
      PROVE  SpentStaysOut'
  BY <1>2 DEF ConsumeCode, Without, Restrict
<1>3. ASSUME NEW t \in RefreshTokens \ used, NEW rg \in RefreshGrants,
             NEW stamp \in 0..now, SaveRefreshToken(t, rg, stamp)
      PROVE  SpentStaysOut'
  <2>1. DOMAIN refresh' \subseteq DOMAIN refresh \cup {t}
    BY <1>3 DEF SaveRefreshToken, Put, CleanExpired, Without, Restrict
  <2> QED
    BY <1>3, <2>1 DEF SaveRefreshToken
<1>4. ASSUME NEW t \in RefreshTokens, ConsumeRefreshToken(t)
      PROVE  SpentStaysOut'
  BY <1>4 DEF ConsumeRefreshToken, Without, Restrict
<1>5. ASSUME NEW t \in RefreshTokens, RevokeRefreshToken(t)
      PROVE  SpentStaysOut'
  BY <1>5 DEF RevokeRefreshToken, Without, Restrict
<1>6. ASSUME NEW d \in DeviceCodes \ used, NEW uc \in UserCodes,
             NEW req \in DeviceRequests, NEW stamp \in 0..now,
             SaveDeviceCode(d, Shown(uc), req, stamp)
      PROVE  SpentStaysOut'
  BY <1>6 DEF SaveDeviceCode, liveDevices
<1>7. ASSUME NEW d \in DeviceCodes, GetDeviceCode(d)
      PROVE  SpentStaysOut'
  BY <1>7 DEF GetDeviceCode, liveDevices
<1>8. ASSUME NEW typed \in TypedCodes, NEW u \in Users,
             AuthorizeDeviceCode(typed, u)
      PROVE  SpentStaysOut'
  BY <1>8 DEF AuthorizeDeviceCode
<1>9. ASSUME NEW typed \in TypedCodes, DenyDeviceCode(typed)
      PROVE  SpentStaysOut'
  BY <1>9 DEF DenyDeviceCode
<1>10. ASSUME NEW d \in DeviceCodes, ConsumeDeviceCode(d)
       PROVE  SpentStaysOut'
  BY <1>10 DEF ConsumeDeviceCode
<1>11. CASE GSTick
  BY <1>11 DEF GSTick
<1>12. CASE UNCHANGED gsVars
  BY <1>12 DEF gsVars
<1> QED
  BY <1>1, <1>2, <1>3, <1>4, <1>5, <1>6, <1>7, <1>8, <1>9, <1>10, <1>11,
     <1>12 DEF GSNext

(* One-time use, for any number of callers, codes and tokens: what         *)
(* ConsumeCode, ConsumeRefreshToken, ConsumeDeviceCode or                  *)
(* RevokeRefreshToken took out of the store is never in it again.          *)
THEOREM OneTimeUse == GSSpec => []SpentStaysOut
<1>1. GSInit => SpentStaysOut
  BY DEF GSInit, NewStore, SpentStaysOut
<1>2. GSTypeOK /\ SpentStaysOut /\ [GSNext]_gsVars => SpentStaysOut'
  BY SpentStep
<1> QED
  BY <1>1, <1>2, StoreTyping, PTL DEF GSSpec

-----------------------------------------------------------------------------
(* Only the device methods touch the index; each deletes the entry of every*)
(* device it deletes, found through the device's own user code.            *)
LEMMA IndexStep ==
    GSTypeOK /\ UserCodeIndexSound /\ [GSNext]_gsVars => UserCodeIndexSound'
<1> SUFFICES ASSUME GSTypeOK, UserCodeIndexSound, [GSNext]_gsVars
             PROVE  UserCodeIndexSound'
  OBVIOUS
<1>0. \A k \in DOMAIN cleanedUserCodes :
        /\ k \in DOMAIN userCodes
        /\ cleanedUserCodes[k] = userCodes[k]
        /\ userCodes[k] \in liveDevices
        /\ k = normalized(dcs[userCodes[k]].userCode)
  BY DEF UserCodeIndexSound, cleanedUserCodes, liveDevices, expiredDevices,
         Without, Restrict
<1>1. CASE UNCHANGED <<dcs, devices, userCodes>>
  BY <1>1 DEF UserCodeIndexSound
<1>2. ASSUME NEW d \in DeviceCodes \ used, NEW uc \in UserCodes,
             NEW req \in DeviceRequests, NEW stamp \in 0..now,
             SaveDeviceCode(d, Shown(uc), req, stamp)
      PROVE  UserCodeIndexSound'
  <2> DEFINE key == normalized(Shown(uc))
  <2>1. /\ dcs'[d].userCode = Shown(uc)
        /\ \A e \in DOMAIN dcs : e # d /\ dcs'[e] = dcs[e]
    BY <1>2 DEF SaveDeviceCode, Put, GSTypeOK
  <2>2. /\ DOMAIN userCodes' = DOMAIN cleanedUserCodes \cup {key}
        /\ userCodes'[key] = d
        /\ \A k \in DOMAIN cleanedUserCodes :
              k # key => userCodes'[k] = cleanedUserCodes[k]
    BY <1>2 DEF SaveDeviceCode, Put
  <2>3. devices' = liveDevices \cup {d} /\ liveDevices \subseteq DOMAIN dcs
    BY <1>2 DEF SaveDeviceCode, liveDevices, GSTypeOK
  <2> SUFFICES ASSUME NEW k \in DOMAIN userCodes'
               PROVE  /\ userCodes'[k] \in devices'
                      /\ k = normalized(dcs'[userCodes'[k]].userCode)
    BY DEF UserCodeIndexSound, normalized
  <2>4. CASE k = key
    BY <2>1, <2>2, <2>3, <2>4
  <2>5. CASE k # key
    BY <1>0, <2>1, <2>2, <2>3, <2>5
  <2> QED
    BY <2>4, <2>5
<1>3. ASSUME NEW d \in DeviceCodes, GetDeviceCode(d)
      PROVE  UserCodeIndexSound'
  BY <1>0, <1>3 DEF GetDeviceCode, UserCodeIndexSound, normalized
<1>4. ASSUME NEW typed \in TypedCodes, NEW u \in Users,
             AuthorizeDeviceCode(typed, u)
      PROVE  UserCodeIndexSound'
  <2>1. \A d \in DOMAIN dcs : dcs'[d].userCode = dcs[d].userCode
    BY <1>4 DEF AuthorizeDeviceCode, GSTypeOK, DeviceCode
  <2>2. devices' = devices /\ userCodes' = userCodes /\ devices \subseteq DOMAIN dcs
    BY <1>4 DEF AuthorizeDeviceCode, GSTypeOK
  <2>3. \A k \in DOMAIN userCodes :
          /\ userCodes[k] \in devices
          /\ dcs'[userCodes[k]].userCode = dcs[userCodes[k]].userCode
    BY <2>1, <2>2 DEF UserCodeIndexSound
  <2> QED
    BY <2>2, <2>3 DEF UserCodeIndexSound, normalized
<1>5. ASSUME NEW typed \in TypedCodes, DenyDeviceCode(typed)
      PROVE  UserCodeIndexSound'
  <2>1. \A d \in DOMAIN dcs : dcs'[d].userCode = dcs[d].userCode
    BY <1>5 DEF DenyDeviceCode, GSTypeOK, DeviceCode
  <2>2. devices' = devices /\ userCodes' = userCodes /\ devices \subseteq DOMAIN dcs
    BY <1>5 DEF DenyDeviceCode, GSTypeOK
  <2>3. \A k \in DOMAIN userCodes :
          /\ userCodes[k] \in devices
          /\ dcs'[userCodes[k]].userCode = dcs[userCodes[k]].userCode
    BY <2>1, <2>2 DEF UserCodeIndexSound
  <2> QED
    BY <2>2, <2>3 DEF UserCodeIndexSound, normalized
<1>6. ASSUME NEW d \in DeviceCodes, ConsumeDeviceCode(d)
      PROVE  UserCodeIndexSound'
  BY <1>6 DEF ConsumeDeviceCode, Consumable, UserCodeIndexSound, normalized,
              Without, Restrict
<1> QED
  BY <1>1, <1>2, <1>3, <1>4, <1>5, <1>6
     DEF GSNext, SaveCode, ConsumeCode, SaveRefreshToken, ConsumeRefreshToken,
         RevokeRefreshToken, GSTick, gsVars

(* The user-code index agrees with the device map after any sequence of    *)
(* device methods, even when randomUserCode repeats a code.                *)
THEOREM IndexSound == GSSpec => []UserCodeIndexSound
<1>1. GSInit => UserCodeIndexSound
  BY DEF GSInit, NewStore, UserCodeIndexSound
<1>2. GSTypeOK /\ UserCodeIndexSound /\ [GSNext]_gsVars
        => UserCodeIndexSound'
  BY IndexStep
<1> QED
  BY <1>1, <1>2, StoreTyping, PTL DEF GSSpec

-----------------------------------------------------------------------------
(* No method forgets a uuid that was handed out or spent, and the clock    *)
(* does not go back.                                                       *)
LEMMA HistoriesGrow ==
    ASSUME now \in Nat, [GSNext]_gsVars
    PROVE  spent \subseteq spent' /\ used \subseteq used' /\ now <= now'
<1> DEFINE Grow == /\ spent \subseteq spent' /\ used \subseteq used'
                   /\ now <= now'
<1>1. ASSUME NEW c, NEW x, NEW stamp, SaveCode(c, x, stamp)
      PROVE  Grow
  BY <1>1 DEF SaveCode
<1>2. ASSUME NEW c, ConsumeCode(c)
      PROVE  Grow
  BY <1>2 DEF ConsumeCode
<1>3. ASSUME NEW t, NEW x, NEW stamp, SaveRefreshToken(t, x, stamp)
      PROVE  Grow
  BY <1>3 DEF SaveRefreshToken
<1>4. ASSUME NEW t, ConsumeRefreshToken(t) \/ RevokeRefreshToken(t)
      PROVE  Grow
  BY <1>4 DEF ConsumeRefreshToken, RevokeRefreshToken
<1>5. ASSUME NEW d, NEW uc, NEW req, NEW stamp,
             SaveDeviceCode(d, Shown(uc), req, stamp)
      PROVE  Grow
  BY <1>5 DEF SaveDeviceCode
<1>6. ASSUME NEW d, ConsumeDeviceCode(d)
      PROVE  Grow
  BY <1>6 DEF ConsumeDeviceCode
<1>7. ASSUME GSTick PROVE Grow
  BY <1>7 DEF GSTick, Tick
<1>8. ASSUME UNCHANGED <<now, used, spent>> PROVE Grow
  BY <1>8
<1> HIDE DEF Grow
<1>9. Grow
  BY <1>1, <1>2, <1>3, <1>4, <1>5, <1>6, <1>7, <1>8
     DEF GSNext, GetDeviceCode, AuthorizeDeviceCode, DenyDeviceCode, gsVars
<1> QED
  BY <1>9 DEF Grow

-----------------------------------------------------------------------------
(* No clean-up drops a grant before its deadline: an entry leaves the store*)
(* only because a caller consumed or revoked it or because it has expired. *)
THEOREM CleanupDropsOnlyExpired == GSSpec => NoEarlyDrop
<1> DEFINE Drops ==
      /\ \A c \in DOMAIN codes \ DOMAIN codes' :
             c \in spent' \/ Expired(codes[c].expiresAt)
      /\ \A t \in DOMAIN refresh \ DOMAIN refresh' :
             t \in spent' \/ Expired(refresh[t].expiresAt)
      /\ \A d \in devices \ devices' :
             d \in spent' \/ Expired(dcs[d].expiresAt)
<1>1. ASSUME [GSNext]_gsVars PROVE [Drops]_gsVars
  <2>1. ASSUME NEW c, NEW ac, NEW stamp, SaveCode(c, ac, stamp) PROVE Drops
    BY <2>1 DEF SaveCode, Put, CleanExpired, Without, Restrict
  <2>2. ASSUME NEW c, ConsumeCode(c) PROVE Drops
    BY <2>2 DEF ConsumeCode, Redeemable, Without, Restrict
  <2>3. ASSUME NEW t, NEW rg, NEW stamp, SaveRefreshToken(t, rg, stamp)
        PROVE  Drops
    BY <2>3 DEF SaveRefreshToken, Put, CleanExpired, Without, Restrict
  <2>4. ASSUME NEW t, ConsumeRefreshToken(t) PROVE Drops
    BY <2>4 DEF ConsumeRefreshToken, Redeemable, Without, Restrict
  <2>5. ASSUME NEW t, RevokeRefreshToken(t) PROVE Drops
    BY <2>5 DEF RevokeRefreshToken, Without, Restrict
  <2>6. ASSUME NEW d, NEW uc, NEW req, NEW stamp,
               SaveDeviceCode(d, Shown(uc), req, stamp)
        PROVE  Drops
    BY <2>6 DEF SaveDeviceCode, liveDevices, expiredDevices
  <2>7. ASSUME NEW d, GetDeviceCode(d) PROVE Drops
    BY <2>7 DEF GetDeviceCode, liveDevices, expiredDevices
  <2>8. ASSUME NEW typed, NEW u, AuthorizeDeviceCode(typed, u) PROVE Drops
    BY <2>8 DEF AuthorizeDeviceCode
  <2>9. ASSUME NEW typed, DenyDeviceCode(typed) PROVE Drops
    BY <2>9 DEF DenyDeviceCode
  <2>10. ASSUME NEW d, ConsumeDeviceCode(d) PROVE Drops
    BY <2>10 DEF ConsumeDeviceCode
  <2>11. ASSUME GSTick PROVE Drops
    BY <2>11 DEF GSTick
  <2> HIDE DEF Drops
  <2> QED
    BY <1>1, <2>1, <2>2, <2>3, <2>4, <2>5, <2>6, <2>7, <2>8, <2>9, <2>10,
       <2>11 DEF GSNext
<1> QED
  BY <1>1, PTL DEF GSSpec, NoEarlyDrop

-----------------------------------------------------------------------------
(* The index finds every device whose code was given to it alone.  Codes   *)
(* are deleted by their normalized form, so it matters that all are stored *)
(* in the one spelling of randomUserCode: two that normalize alike are     *)
(* equal.                                                                  *)
CodesAsShown == \A d \in DOMAIN dcs : dcs[d].userCode.spelling = "shown"

Alone(d) == \A e \in DOMAIN dcs \ {d} : dcs[e].userCode # dcs[d].userCode
Indexed(d) ==
    LET k == normalized(dcs[d].userCode)
    IN  k \in DOMAIN userCodes /\ userCodes[k] = d
AloneIsIndexed == \A d \in devices : Alone(d) => Indexed(d)

LEMMA NormalizedInjective ==
    ASSUME GSTypeOK, CodesAsShown, NEW d \in DOMAIN dcs, NEW e \in DOMAIN dcs,
           normalized(dcs[d].userCode) = normalized(dcs[e].userCode)
    PROVE  dcs[d].userCode = dcs[e].userCode
<1>1. dcs[d].userCode \in TypedCodes /\ dcs[e].userCode \in TypedCodes
  BY DEF GSTypeOK, DeviceCode
<1>2. ASSUME NEW x \in TypedCodes, NEW y \in TypedCodes,
             x.spelling = y.spelling, normalized(x) = normalized(y)
      PROVE  x = y
  <2>1. normalized(x).letters = x.letters /\ normalized(y).letters = y.letters
    BY DEF normalized, TypedCodes
  <2> QED
    BY <1>2, <2>1 DEF TypedCodes
<1> QED
  BY <1>1, <1>2 DEF CodesAsShown

LEMMA CompleteStep ==
    GSTypeOK /\ CodesAsShown /\ AloneIsIndexed /\ [GSNext]_gsVars
        => CodesAsShown' /\ AloneIsIndexed'
<1> SUFFICES ASSUME GSTypeOK, CodesAsShown, AloneIsIndexed, [GSNext]_gsVars
             PROVE  CodesAsShown' /\ AloneIsIndexed'
  OBVIOUS
<1> DEFINE Goal == CodesAsShown' /\ AloneIsIndexed'
<1>0. devices \subseteq DOMAIN dcs
  BY DEF GSTypeOK
<1>c. ASSUME NEW d \in liveDevices, Alone(d)
      PROVE  LET k == normalized(dcs[d].userCode)
             IN  k \in DOMAIN cleanedUserCodes /\ cleanedUserCodes[k] = d
  <2> DEFINE k == normalized(dcs[d].userCode)
  <2>1. d \in devices /\ d \in DOMAIN dcs /\ k \in DOMAIN userCodes /\ userCodes[k] = d
    BY <1>0, <1>c DEF liveDevices, AloneIsIndexed, Indexed
  <2>2. ASSUME NEW e \in expiredDevices PROVE normalized(dcs[e].userCode) # k
    <3>1. e \in DOMAIN dcs \ {d}
      BY <1>0, <1>c, <2>2 DEF liveDevices, expiredDevices
    <3> QED
      BY <1>c, <2>1, <3>1, NormalizedInjective DEF Alone
  <2> HIDE DEF k
  <2>3. k \in DOMAIN cleanedUserCodes /\ cleanedUserCodes[k] = d
    BY <2>1, <2>2 DEF cleanedUserCodes, Without, Restrict
  <2> QED
    BY <2>3 DEF k
<1>1. ASSUME UNCHANGED <<dcs, devices, userCodes>> PROVE Goal
  BY <1>1 DEF CodesAsShown, AloneIsIndexed, Alone, Indexed, normalized
<1>2. ASSUME NEW d \in DeviceCodes \ used, NEW uc \in UserCodes,
             NEW req \in DeviceRequests, NEW stamp \in 0..now,
             SaveDeviceCode(d, Shown(uc), req, stamp)
      PROVE  Goal
  <2> DEFINE key == normalized(Shown(uc))
  <2>1. /\ dcs'[d].userCode = Shown(uc) /\ DOMAIN dcs' = DOMAIN dcs \cup {d}
        /\ \A e \in DOMAIN dcs : e # d /\ dcs'[e] = dcs[e]
    BY <1>2 DEF SaveDeviceCode, Put, GSTypeOK
  <2>2. /\ DOMAIN userCodes' = DOMAIN cleanedUserCodes \cup {key}
        /\ userCodes'[key] = d
        /\ \A k \in DOMAIN cleanedUserCodes :
              k # key => userCodes'[k] = cleanedUserCodes[k]
    BY <1>2 DEF SaveDeviceCode, Put
  <2>3. devices' = liveDevices \cup {d}
    BY <1>2 DEF SaveDeviceCode
  <2>4. CodesAsShown'
    BY <2>1 DEF CodesAsShown, Shown
  <2>5. GSTypeOK'
    BY <1>2, TypeStep
  <2>6. ASSUME NEW e \in devices', Alone(e)' PROVE Indexed(e)'
    <3>1. CASE e = d
      <4>1. normalized(dcs[e].userCode)' = key
        BY <2>1, <3>1 DEF normalized
      <4> HIDE DEF key
      <4> QED
        BY <2>2, <3>1, <4>1 DEF Indexed
    <3>2. CASE e # d
      <4>1. e \in liveDevices /\ e \in DOMAIN dcs
        BY <1>0, <2>3, <2>6, <3>2 DEF liveDevices
      <4>2. Alone(e) /\ dcs[e].userCode # Shown(uc)
        BY <2>1, <2>6, <3>2, <4>1 DEF Alone
      <4>3. normalized(dcs[e].userCode) # key
        <5>1. e \in DOMAIN dcs' /\ d \in DOMAIN dcs'
          BY <2>1, <4>1
        <5>2. normalized(dcs[e].userCode)' = normalized(dcs[d].userCode)'
                => dcs'[e].userCode = dcs'[d].userCode
          <6>1. dcs'[e].userCode \in TypedCodes /\ dcs'[d].userCode \in TypedCodes
                /\ dcs'[e].userCode.spelling = "shown"
                /\ dcs'[d].userCode.spelling = "shown"
            BY <2>4, <2>5, <5>1 DEF GSTypeOK, DeviceCode, CodesAsShown
          <6> HIDE DEF key
          <6> QED
            BY <6>1 DEF normalized, TypedCodes
        <5> QED
          BY <2>1, <4>1, <4>2, <5>2 DEF normalized
      <4> DEFINE k == normalized(dcs[e].userCode)
      <4>4. k \in DOMAIN cleanedUserCodes /\ cleanedUserCodes[k] = e
        BY <1>c, <4>1, <4>2
      <4>5. normalized(dcs[e].userCode)' = k
        BY <2>1, <4>1 DEF normalized
      <4> HIDE DEF k, key
      <4>6. k # key
        BY <4>3 DEF k, key
      <4> QED
        BY <2>2, <4>4, <4>5, <4>6 DEF Indexed
    <3> QED
      BY <3>1, <3>2
  <2> QED
    BY <2>4, <2>6 DEF AloneIsIndexed
<1>3. ASSUME NEW d \in DeviceCodes, GetDeviceCode(d) PROVE Goal
  <2>1. dcs' = dcs /\ devices' = liveDevices /\ userCodes' = cleanedUserCodes
    BY <1>3 DEF GetDeviceCode
  <2> QED
    BY <1>c, <2>1 DEF CodesAsShown, AloneIsIndexed, Alone, Indexed, normalized
<1>4. ASSUME DOMAIN dcs' = DOMAIN dcs,
             \A d \in DOMAIN dcs : dcs'[d].userCode = dcs[d].userCode,
             UNCHANGED <<devices, userCodes>>
      PROVE  Goal
  <2>1. CodesAsShown'
    BY <1>4 DEF CodesAsShown
  <2>2. \A d \in devices : Alone(d)' => Alone(d)
    BY <1>0, <1>4 DEF Alone
  <2>3. \A d \in devices : Indexed(d) => Indexed(d)'
    BY <1>0, <1>4 DEF Indexed, normalized
  <2> QED
    BY <1>4, <2>1, <2>2, <2>3 DEF AloneIsIndexed
<1>5. ASSUME NEW typed, NEW u, AuthorizeDeviceCode(typed, u) PROVE Goal
  <2>1. /\ DOMAIN dcs' = DOMAIN dcs /\ UNCHANGED <<devices, userCodes>>
        /\ \A d \in DOMAIN dcs : dcs'[d].userCode = dcs[d].userCode
    BY <1>5 DEF AuthorizeDeviceCode, GSTypeOK, DeviceCode
  <2> QED
    BY <1>4, <2>1
<1>6. ASSUME NEW typed, DenyDeviceCode(typed) PROVE Goal
  <2>1. /\ DOMAIN dcs' = DOMAIN dcs /\ UNCHANGED <<devices, userCodes>>
        /\ \A d \in DOMAIN dcs : dcs'[d].userCode = dcs[d].userCode
    BY <1>6 DEF DenyDeviceCode, GSTypeOK, DeviceCode
  <2> QED
    BY <1>4, <2>1
<1>7. ASSUME NEW d \in DeviceCodes, ConsumeDeviceCode(d) PROVE Goal
  <2>1. CASE ~Consumable(d)
    BY <1>1, <1>7, <2>1 DEF ConsumeDeviceCode
  <2>2. CASE Consumable(d)
    <3> DEFINE gone == normalized(dcs[d].userCode)
    <3>1. /\ dcs' = dcs /\ devices' = devices \ {d}
          /\ userCodes' = Without(userCodes, {gone})
          /\ d \in DOMAIN dcs
      BY <1>0, <1>7, <2>2 DEF ConsumeDeviceCode, Consumable
    <3>2. ASSUME NEW e \in devices', Alone(e)' PROVE Indexed(e)'
      <4>1. e \in devices /\ e \in DOMAIN dcs /\ d \in DOMAIN dcs \ {e} /\ Alone(e)
        BY <1>0, <3>1, <3>2 DEF Alone
      <4> DEFINE k == normalized(dcs[e].userCode)
      <4>2. k # gone
        BY <4>1, NormalizedInjective DEF Alone
      <4>3. k \in DOMAIN userCodes /\ userCodes[k] = e
        BY <4>1 DEF AloneIsIndexed, Indexed
      <4>4. normalized(dcs[e].userCode)' = k
        BY <3>1 DEF normalized
      <4> HIDE DEF k, gone
      <4> QED
        BY <3>1, <4>2, <4>3, <4>4 DEF Indexed, Without, Restrict
    <3> QED
      BY <3>1, <3>2 DEF CodesAsShown, AloneIsIndexed
  <2> QED
    BY <2>1, <2>2
<1> HIDE DEF Goal
<1>8. Goal
  BY <1>1, <1>2, <1>3, <1>5, <1>6, <1>7
     DEF GSNext, SaveCode, ConsumeCode, SaveRefreshToken, ConsumeRefreshToken,
         RevokeRefreshToken, GSTick, gsVars
<1> QED
  BY <1>8 DEF Goal

(* Whoever types the code of a device that has it alone reaches the device,*)
(* with or without the hyphen and in either case, whatever clean-ups and   *)
(* redemptions of other devices delete index entries meanwhile.            *)
THEOREM IndexComplete == GSSpec => []UserCodeIndexComplete
<1>1. GSInit => CodesAsShown /\ AloneIsIndexed
  BY DEF GSInit, NewStore, CodesAsShown, AloneIsIndexed
<1>2. GSTypeOK /\ CodesAsShown /\ AloneIsIndexed /\ [GSNext]_gsVars
        => CodesAsShown' /\ AloneIsIndexed'
  BY CompleteStep
<1>3. GSTypeOK /\ AloneIsIndexed => UserCodeIndexComplete
  <2> SUFFICES ASSUME GSTypeOK, AloneIsIndexed, NEW d \in devices, Alone(d),
                      NEW sp \in Spellings
               PROVE  DeviceOf([dcs[d].userCode EXCEPT !.spelling = sp]) = {d}
    BY DEF UserCodeIndexComplete, Alone
  <2>1. dcs[d].userCode \in TypedCodes
    BY DEF GSTypeOK, DeviceCode
  <2>2. normalized([dcs[d].userCode EXCEPT !.spelling = sp])
          = normalized(dcs[d].userCode)
    BY <2>1 DEF normalized, TypedCodes
  <2>3. Indexed(d)
    BY DEF AloneIsIndexed
  <2> QED
    BY <2>2, <2>3 DEF DeviceOf, Indexed
<1> QED
  BY <1>1, <1>2, <1>3, StoreTyping, PTL DEF GSSpec
=============================================================================
