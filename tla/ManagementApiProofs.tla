------------------------ MODULE ManagementApiProofs -------------------------
(* Proofs about ManagementApi, for any users, roles, seeds and requests,   *)
(* any number of concurrent requests and any number of crashes.            *)
EXTENDS ManagementApi, TLAPS

Fields == Tables \cup {"userRoles", "rolePerms", "blocks"}
Shape(d) == d = [f \in Fields |-> d[f]]

ThreadFields == {"pc", "req", "row", "next", "failed", "answer"}
ThreadShape ==
    /\ th = [t \in Threads |-> th[t]]
    /\ \A t \in Threads : th[t] = [f \in ThreadFields |-> th[t][f]]

(* A PATCH names a table with rows, and no request runs during a start.    *)
RequestsInPlace ==
    /\ \A t \in Threads : th[t].pc \in {"select", "update", "reselect"}
                            => th[t].req.table \in Tables
    /\ phase # Serving => \A t \in Threads : th[t].pc \in {"idle", "done"}

(* The strengthening of OnlyRacesLeaveOrphans: what the statements of a    *)
(* DeleteUser have dealt with can only be back because of a race.          *)
DeletedSoFar ==
    \A u \in UserIDs, t \in Threads :
        th[t].req.id = u =>
          /\ th[t].pc = "delete_blocks" /\ UserPairs(db, u) # {} => u \in stray
          /\ th[t].pc = "delete_user" /\ Linked(db, u) => u \in stray

(* The strengthening of PermissionsBacked: once DeleteRole is past its     *)
(* first statement, the role has no permissions or is in the history.      *)
PermissionsHeld ==
    \A r \in RoleIDs : PermPairs(db, r) # {} =>
        /\ r \in DOMAIN db.roles \/ r \in unbacked
        /\ \A t \in Threads :
             th[t].pc \in {"delete_members", "delete_role"} /\ th[t].req.id = r
               => r \in unbacked

MAInv ==
    /\ Shape(db)
    /\ ThreadShape
    /\ RequestsInPlace
    /\ OnlyRacesLeaveOrphans
    /\ DeletedSoFar
    /\ PermissionsHeld

(* The first start finds empty tables and no requests.                     *)
LEMMA MAInvInit == MAInit => MAInv
<1> SUFFICES ASSUME MAInit PROVE MAInv
  OBVIOUS
<1>1. Shape(db) /\ db.userRoles = {} /\ db.rolePerms = {} /\ db.blocks = {}
  BY DEF MAInit, Empty, Shape, Fields, Tables
<1>2. ThreadShape /\ \A t \in Threads : th[t].pc = "idle"
  BY DEF MAInit, NewThread, ThreadShape, ThreadFields
<1> QED
  BY <1>1, <1>2 DEF MAInv, RequestsInPlace, OnlyRacesLeaveOrphans, DeletedSoFar,
     PermissionsHeld, Linked, UserPairs, PermPairs

-----------------------------------------------------------------------------
(* Request t goes on to pc; no other request moves.                        *)
Moves(t, pc) ==
    /\ ThreadShape'
    /\ \A o \in Threads : /\ th'[o].req = th[o].req
                          /\ th'[o].pc = IF o = t THEN pc ELSE th[o].pc

DeletePcs == {"delete_blocks", "delete_user", "delete_members", "delete_role"}

(* No user and no role disappears, and no role's permissions change.       *)
NothingDeleted ==
    /\ Shape(db')
    /\ DOMAIN db.users \subseteq DOMAIN db'.users
    /\ DOMAIN db.roles \subseteq DOMAIN db'.roles
    /\ db'.rolePerms = db.rolePerms

(* A step that deletes nothing and enters no deletion keeps the invariant, *)
(* whatever rows it adds: the histories take note of those that matter.    *)
LEMMA QuietStep ==
    ASSUME MAInv, NEW t \in Threads, NEW pc, NEW left,
           Moves(t, pc), NothingDeleted, phase = Serving, phase' = phase,
           stray' = Strays, unbacked' = Unbacked(left),
           pc \notin DeletePcs,
           pc \in {"select", "update", "reselect"} => th[t].req.table \in Tables
    PROVE  MAInv'
<1>1. Shape(db)' /\ ThreadShape' /\ RequestsInPlace'
  BY DEF MAInv, Moves, NothingDeleted, RequestsInPlace, Shape
<1>2. ASSUME NEW u \in UserIDs, Linked(db', u), u \notin DOMAIN db'.users
      PROVE  u \in stray'
  BY <1>2 DEF MAInv, OnlyRacesLeaveOrphans, NothingDeleted, Strays, Gained, Linked
<1>3. ASSUME NEW u \in UserIDs, NEW o \in Threads, th'[o].req.id = u
      PROVE  /\ th'[o].pc = "delete_blocks" /\ UserPairs(db', u) # {} => u \in stray'
             /\ th'[o].pc = "delete_user" /\ Linked(db', u) => u \in stray'
  <2>1. th'[o].pc \in DeletePcs => th[o].pc = th'[o].pc /\ th[o].req.id = u
    BY <1>3 DEF Moves
  <2> QED
    BY <2>1 DEF MAInv, DeletedSoFar, DeletePcs, Strays, Gained, Linked, BeingDeleted
<1>4. PermissionsHeld'
  <2>1. \A r \in RoleIDs : PermPairs(db', r) = PermPairs(db, r)
    BY DEF NothingDeleted, PermPairs
  <2>2. \A o \in Threads : th'[o].pc \in DeletePcs
                             => th[o].pc = th'[o].pc /\ th[o].req = th'[o].req
    BY DEF Moves
  <2> QED
    BY <2>1, <2>2 DEF MAInv, PermissionsHeld, NothingDeleted, Unbacked, DeletePcs
<1> QED
  BY <1>1, <1>2, <1>3, <1>4 DEF MAInv, OnlyRacesLeaveOrphans, DeletedSoFar

-----------------------------------------------------------------------------
(* What the helpers do to the requests.                                    *)
LEMMA ThreadMoves ==
    ASSUME ThreadShape, NEW t \in Threads, NEW pc, NEW answer, NEW row
    PROVE  /\ th' = Done(t, answer) => Moves(t, "done")
           /\ th' = Fail(t, answer) => Moves(t, "done")
           /\ th' = Goto(t, pc) => Moves(t, pc)
           /\ th' = [Goto(t, pc) EXCEPT ![t].row = row] => Moves(t, pc)
           /\ th' = [Goto(t, pc) EXCEPT ![t].failed = TRUE] => Moves(t, pc)
           /\ th' = [Done(t, answer) EXCEPT ![t].row = row] => Moves(t, "done")
           /\ th' = [th EXCEPT ![t].next = @ + 1] => Moves(t, th[t].pc)
           /\ th' = [[th EXCEPT ![t].next = @ + 1] EXCEPT ![t].failed = TRUE]
                => Moves(t, th[t].pc)
BY DEF ThreadShape, ThreadFields, Done, Fail, Goto, Moves

(* Which statements delete no user, no role and no permission.             *)
LEMMA HarmlessStatements ==
    ASSUME Shape(db), NEW u, NEW r, NEW table \in Tables, NEW id, NEW row
    PROVE  /\ db' = db => NothingDeleted
           /\ db' = AssignRoleToUser(db, u, r) => NothingDeleted
           /\ db' = RemoveRoleFromUser(db, u, r) => NothingDeleted
           /\ db' = BlockUser(db, u) => NothingDeleted
           /\ db' = UnblockUser(db, u) => NothingDeleted
           /\ db' = Insert(db, table, id, row) => NothingDeleted
           /\ db' = Update(db, table, id, row) => NothingDeleted
<1>1. db' = db => NothingDeleted
  BY DEF NothingDeleted, Shape
<1> USE DEF Shape, Fields, Tables, NothingDeleted
<1>2. db' = AssignRoleToUser(db, u, r) => NothingDeleted
  BY DEF AssignRoleToUser
<1>3. db' = RemoveRoleFromUser(db, u, r) => NothingDeleted
  BY DEF RemoveRoleFromUser
<1>4. db' = BlockUser(db, u) => NothingDeleted
  BY DEF BlockUser
<1>5. db' = UnblockUser(db, u) => NothingDeleted
  BY DEF UnblockUser
<1>6. ASSUME NEW v, db' = [db EXCEPT ![table] = Put(@, id, v)]
      PROVE  NothingDeleted
  <2>1. Shape(db') /\ \A f \in Fields : db'[f] = IF f = table THEN Put(db[f], id, v)
                                                 ELSE db[f]
    BY <1>6
  <2>2. DOMAIN Put(db[table], id, v) = DOMAIN db[table] \cup {id}
    BY DEF Put
  <2>3. table # "rolePerms" /\ "users" \in Fields /\ "roles" \in Fields
    OBVIOUS
  <2> HIDE DEF Shape
  <2> QED
    BY <2>1, <2>2, <2>3
<1>7. db' = Insert(db, table, id, row) => NothingDeleted
  BY <1>6 DEF Insert
<1>8. db' = Update(db, table, id, row) => NothingDeleted
  BY <1>1, <1>6 DEF Update
<1> QED
  BY <1>1, <1>2, <1>3, <1>4, <1>5, <1>7, <1>8

(* A failed statement of a request changes nothing.                        *)
LEMMA FailStep ==
    ASSUME MAInv, NEW t \in Threads, NEW answer, NEW left, phase = Serving,
           Fails(Fail(t, answer), left)
    PROVE  MAInv'
<1>1. Moves(t, "done") /\ NothingDeleted
  BY ThreadMoves, HarmlessStatements DEF MAInv, Fails, Tables
<1> QED
  BY <1>1, QuietStep DEF Fails, Remember, DeletePcs

(* PATCH.                                                                  *)
LEMMA PatchStep ==
    ASSUME MAInv, NEW t \in Threads,
           SelectRow(t) \/ UpdateRow(t) \/ ReselectRow(t)
    PROVE  MAInv'
<1> USE DEF At
<1>1. phase = Serving /\ th[t].req.table \in Tables
  BY DEF SelectRow, UpdateRow, ReselectRow, MAInv, RequestsInPlace
<1>2. ASSUME NEW answer, Fails(Fail(t, answer), {}) PROVE MAInv'
  BY <1>1, <1>2, FailStep
<1>3. CASE SelectRow(t)
  <2>1. ASSUME NEW pc \in {"update", "done"}, Moves(t, pc), db' = db,
               phase' = phase, stray' = Strays, unbacked' = Unbacked({})
        PROVE  MAInv'
    BY <1>1, <2>1, HarmlessStatements, QuietStep DEF MAInv, DeletePcs
  <2> QED
    BY <1>1, <1>2, <1>3, <2>1, ThreadMoves DEF SelectRow, Succeeds, Remember, MAInv
<1>4. CASE UpdateRow(t)
  <2>1. ASSUME NEW pc \in {"reselect", "done"}, Moves(t, pc), NEW set,
               db' = Update(db, th[t].req.table, th[t].req.id, set),
               phase' = phase, stray' = Strays, unbacked' = Unbacked({})
        PROVE  MAInv'
    BY <1>1, <2>1, HarmlessStatements, QuietStep DEF MAInv, DeletePcs
  <2> QED
    BY <1>1, <1>2, <1>4, <2>1, ThreadMoves DEF UpdateRow, Remember, MAInv
<1>5. CASE ReselectRow(t)
  <2>1. ASSUME Moves(t, "done"), db' = db,
               phase' = phase, stray' = Strays, unbacked' = Unbacked({})
        PROVE  MAInv'
    BY <1>1, <2>1, HarmlessStatements, QuietStep DEF MAInv, DeletePcs
  <2> QED
    BY <1>1, <1>2, <1>5, <2>1, ThreadMoves DEF ReselectRow, Succeeds, Remember, MAInv
<1> QED
  BY <1>3, <1>4, <1>5

(* Signing up, creating a user, roles and blocks of a user, new roles.     *)
LEMMA WriteStep ==
    ASSUME MAInv, NEW t \in Threads,
           \/ InsertUser(t) \/ InsertUserRole(t) \/ ModifyRoles(t)
           \/ ModifyBlocks(t) \/ CreateRole(t)
    PROVE  MAInv'
<1> USE DEF At
<1>1. phase = Serving
  BY DEF InsertUser, InsertUserRole, ModifyRoles, ModifyBlocks, CreateRole
<1>2. ASSUME NEW answer, NEW left, Fails(Fail(t, answer), left) PROVE MAInv'
  BY <1>1, <1>2, FailStep
<1>3. ASSUME NEW pc \in {"insert_pair", "done", "assign", "remove"}, NEW left,
             Moves(t, pc), NothingDeleted,
             phase' = phase, stray' = Strays, unbacked' = Unbacked(left)
      PROVE  MAInv'
  BY <1>1, <1>3, QuietStep DEF DeletePcs
<1>4. CASE InsertUser(t)
  BY <1>2, <1>3, <1>4, ThreadMoves, HarmlessStatements
     DEF InsertUser, Succeeds, Remember, MAInv, Tables
<1>5. CASE InsertUserRole(t)
  BY <1>2, <1>3, <1>5, ThreadMoves, HarmlessStatements
     DEF InsertUserRole, Succeeds, Remember, MAInv, Tables
<1>6. CASE ModifyRoles(t)
  BY <1>3, <1>6, ThreadMoves, HarmlessStatements
     DEF ModifyRoles, Succeeds, Fails, Remember, MAInv, Tables
<1>7. CASE ModifyBlocks(t)
  BY <1>2, <1>3, <1>7, ThreadMoves, HarmlessStatements
     DEF ModifyBlocks, Succeeds, Remember, MAInv, Tables
<1>8. CASE CreateRole(t)
  BY <1>2, <1>3, <1>8, ThreadMoves, HarmlessStatements
     DEF CreateRole, Succeeds, Remember, MAInv, Tables
<1> QED
  BY <1>4, <1>5, <1>6, <1>7, <1>8

-----------------------------------------------------------------------------
(* The statements of DeleteUser that take effect.                          *)
LEMMA DeleteUserStep ==
    ASSUME MAInv, NEW t \in Threads,
           DeleteUserRoles(t) \/ DeleteUserBlocks(t) \/ DeleteUserRow(t)
    PROVE  MAInv'
<1> DEFINE id == th[t].req.id
<1> USE DEF At
<1>1. phase = Serving
  BY DEF DeleteUserRoles, DeleteUserBlocks, DeleteUserRow
<1>2. ASSUME NEW answer, NEW left, Fails(Fail(t, answer), left) PROVE MAInv'
  BY <1>1, <1>2, FailStep
<1>3. ASSUME NEW pc \in {"delete_blocks", "delete_user", "done"}, Moves(t, pc),
             Shape(db'), db'.roles = db.roles, db'.rolePerms = db.rolePerms,
             phase' = phase, unbacked' = Unbacked({})
      PROVE  Shape(db)' /\ ThreadShape' /\ RequestsInPlace' /\ PermissionsHeld'
  <2>1. Shape(db)' /\ ThreadShape' /\ RequestsInPlace'
    BY <1>3, <1>1 DEF MAInv, Moves, RequestsInPlace, Shape
  <2>2. \A r \in RoleIDs : PermPairs(db', r) = PermPairs(db, r)
    BY <1>3 DEF PermPairs
  <2>3. \A o \in Threads : th'[o].pc \in {"delete_members", "delete_role"}
                             => th[o].pc = th'[o].pc /\ th[o].req = th'[o].req
    BY <1>3 DEF Moves
  <2>4. PermissionsHeld'
    BY <1>3, <2>2, <2>3 DEF MAInv, PermissionsHeld, Unbacked
  <2> QED
    BY <2>1, <2>4
<1>4. CASE DeleteUserRoles(t)
  <2>1. ASSUME Succeeds(DeleteRolesOf(db, id), Goto(t, "delete_blocks"))
        PROVE  MAInv'
    <3>1. /\ Shape(db') /\ db'.users = db.users /\ db'.roles = db.roles
          /\ db'.rolePerms = db.rolePerms /\ db'.blocks = db.blocks
          /\ db'.userRoles = {x \in db.userRoles : x[1] # id}
      BY <2>1 DEF MAInv, Succeeds, DeleteRolesOf, Shape, Fields, Tables
    <3>2. Moves(t, "delete_blocks") /\ phase' = phase
          /\ stray' = Strays /\ unbacked' = Unbacked({})
      BY <2>1, ThreadMoves DEF MAInv, Succeeds, Remember
    <3>3. \A u : /\ UserPairs(db', u) = IF u = id THEN {} ELSE UserPairs(db, u)
                 /\ ~Gained(u)
                 /\ Linked(db', u) => Linked(db, u)
      BY <3>1 DEF UserPairs, Gained, Linked
    <3>4. OnlyRacesLeaveOrphans'
      BY <3>1, <3>2, <3>3 DEF MAInv, OnlyRacesLeaveOrphans, Strays
    <3>5. DeletedSoFar'
      BY <3>1, <3>2, <3>3 DEF MAInv, DeletedSoFar, Strays, Moves, Linked
    <3> QED
      BY <1>3, <3>1, <3>2, <3>4, <3>5 DEF MAInv
  <2> QED
    BY <1>2, <1>4, <2>1 DEF DeleteUserRoles
<1>5. CASE DeleteUserBlocks(t)
  <2>1. ASSUME Succeeds(UnblockUser(db, id), Goto(t, "delete_user"))
        PROVE  MAInv'
    <3>1. /\ Shape(db') /\ db'.users = db.users /\ db'.roles = db.roles
          /\ db'.rolePerms = db.rolePerms /\ db'.blocks = db.blocks \ {id}
          /\ db'.userRoles = db.userRoles
      BY <2>1 DEF MAInv, Succeeds, UnblockUser, Shape, Fields, Tables
    <3>2. Moves(t, "delete_user") /\ phase' = phase
          /\ stray' = Strays /\ unbacked' = Unbacked({})
      BY <2>1, ThreadMoves DEF MAInv, Succeeds, Remember
    <3>3. \A u : /\ UserPairs(db', u) = UserPairs(db, u)
                 /\ ~Gained(u)
                 /\ Linked(db', u) => Linked(db, u)
      BY <3>1 DEF UserPairs, Gained, Linked
    <3>4. OnlyRacesLeaveOrphans'
      BY <3>1, <3>2, <3>3 DEF MAInv, OnlyRacesLeaveOrphans, Strays
    <3>5. th[t].pc = "delete_blocks"
      BY <1>5 DEF DeleteUserBlocks
    <3>6. DeletedSoFar'
      BY <3>1, <3>2, <3>3, <3>5 DEF MAInv, DeletedSoFar, Strays, Moves, Linked
    <3> QED
      BY <1>3, <3>1, <3>2, <3>4, <3>6 DEF MAInv
  <2> QED
    BY <1>2, <1>5, <2>1 DEF DeleteUserBlocks
<1>6. CASE DeleteUserRow(t)
  <2>1. ASSUME Succeeds(Delete(db, "users", id), Done(t, "no_content"))
        PROVE  MAInv'
    <3>1. /\ Shape(db') /\ DOMAIN db'.users = DOMAIN db.users \ {id}
          /\ db'.roles = db.roles /\ db'.rolePerms = db.rolePerms
          /\ db'.blocks = db.blocks /\ db'.userRoles = db.userRoles
      BY <2>1 DEF MAInv, Succeeds, Delete, Without, Restrict, Shape, Fields, Tables
    <3>2. Moves(t, "done") /\ phase' = phase
          /\ stray' = Strays /\ unbacked' = Unbacked({})
      BY <2>1, ThreadMoves DEF MAInv, Succeeds, Remember
    <3>3. \A u : /\ UserPairs(db', u) = UserPairs(db, u)
                 /\ ~Gained(u)
                 /\ Linked(db', u) => Linked(db, u)
      BY <3>1 DEF UserPairs, Gained, Linked
    <3>4. id \in UserIDs /\ Linked(db, id) => id \in stray
      BY <1>6 DEF MAInv, DeletedSoFar, DeleteUserRow
    <3>5. OnlyRacesLeaveOrphans'
      BY <3>1, <3>2, <3>3, <3>4 DEF MAInv, OnlyRacesLeaveOrphans, Strays
    <3>6. DeletedSoFar'
      BY <3>1, <3>2, <3>3 DEF MAInv, DeletedSoFar, Strays, Moves, Linked
    <3> QED
      BY <1>3, <3>1, <3>2, <3>5, <3>6 DEF MAInv
  <2> QED
    BY <1>2, <1>6, <2>1 DEF DeleteUserRow
<1> QED
  BY <1>4, <1>5, <1>6

(* The statements of DeleteRole; its first two go on after an error.       *)
LEMMA DeleteRoleStep ==
    ASSUME MAInv, NEW t \in Threads,
           DeleteRolePermissions(t) \/ DeleteRoleMembers(t) \/ DeleteRoleRow(t)
    PROVE  MAInv'
<1> DEFINE id == th[t].req.id
<1> USE DEF At
<1>1. phase = Serving
  BY DEF DeleteRolePermissions, DeleteRoleMembers, DeleteRoleRow
<1>2. ASSUME NEW pc \in {"delete_members", "delete_role", "done"}, Moves(t, pc),
             Shape(db'), db'.users = db.users, db'.blocks = db.blocks,
             db'.userRoles \subseteq db.userRoles,
             phase' = phase, stray' = Strays
      PROVE  /\ Shape(db)' /\ ThreadShape' /\ RequestsInPlace'
             /\ OnlyRacesLeaveOrphans' /\ DeletedSoFar'
  <2>1. Shape(db)' /\ ThreadShape' /\ RequestsInPlace'
    BY <1>2, <1>1 DEF MAInv, Moves, RequestsInPlace, Shape
  <2>2. \A u : /\ UserPairs(db', u) \subseteq UserPairs(db, u)
               /\ ~Gained(u)
               /\ Linked(db', u) => Linked(db, u)
    BY <1>2 DEF UserPairs, Gained, Linked
  <2>3. OnlyRacesLeaveOrphans'
    BY <1>2, <2>2 DEF MAInv, OnlyRacesLeaveOrphans, Strays
  <2>4. DeletedSoFar'
    BY <1>2, <2>2 DEF MAInv, DeletedSoFar, Strays, Moves, Linked
  <2> QED
    BY <2>1, <2>3, <2>4
<1>3. CASE DeleteRolePermissions(t)
  <2>1. ASSUME Succeeds(DeletePermissionsOf(db, id), Goto(t, "delete_members"))
        PROVE  MAInv'
    <3>1. /\ Shape(db') /\ db'.users = db.users /\ db'.roles = db.roles
          /\ db'.blocks = db.blocks /\ db'.userRoles = db.userRoles
          /\ db'.rolePerms = {x \in db.rolePerms : x[1] # id}
      BY <2>1 DEF MAInv, Succeeds, DeletePermissionsOf, Shape, Fields, Tables
    <3>2. Moves(t, "delete_members") /\ phase' = phase
          /\ stray' = Strays /\ unbacked' = Unbacked({})
      BY <2>1, ThreadMoves DEF MAInv, Succeeds, Remember
    <3>3. \A r : PermPairs(db', r) = IF r = id THEN {} ELSE PermPairs(db, r)
      BY <3>1 DEF PermPairs
    <3>4. PermissionsHeld'
      BY <3>1, <3>2, <3>3 DEF MAInv, PermissionsHeld, Unbacked, Moves
    <3> QED
      BY <1>2, <3>1, <3>2, <3>4 DEF MAInv
  <2>2. ASSUME Fails([Goto(t, "delete_members") EXCEPT ![t].failed = TRUE], {id})
        PROVE  MAInv'
    <3>1. Moves(t, "delete_members") /\ phase' = phase /\ db' = db
          /\ stray' = Strays /\ unbacked' = Unbacked({id})
      BY <2>2, ThreadMoves DEF MAInv, Fails, Remember
    <3>2. PermissionsHeld'
      BY <3>1 DEF MAInv, PermissionsHeld, Unbacked, Moves
    <3> QED
      BY <1>2, <3>1, <3>2 DEF MAInv, Shape
  <2> QED
    BY <1>3, <2>1, <2>2 DEF DeleteRolePermissions
<1>4. CASE DeleteRoleMembers(t)
  <2>1. ASSUME Moves(t, "delete_role"), Shape(db'), db'.roles = db.roles,
               db'.rolePerms = db.rolePerms, unbacked' = Unbacked({})
        PROVE  PermissionsHeld'
    <3>1. \A r : PermPairs(db', r) = PermPairs(db, r)
      BY <2>1 DEF PermPairs
    <3>2. th[t].pc = "delete_members"
      BY <1>4 DEF DeleteRoleMembers
    <3> QED
      BY <2>1, <3>1, <3>2 DEF MAInv, PermissionsHeld, Unbacked, Moves
  <2>2. ASSUME Succeeds(DeleteMembersOf(db, id), Goto(t, "delete_role"))
        PROVE  MAInv'
    <3>1. /\ Shape(db') /\ db'.users = db.users /\ db'.roles = db.roles
          /\ db'.blocks = db.blocks /\ db'.userRoles \subseteq db.userRoles
          /\ db'.rolePerms = db.rolePerms
      BY <2>2 DEF MAInv, Succeeds, DeleteMembersOf, Shape, Fields, Tables
    <3>2. Moves(t, "delete_role") /\ phase' = phase
          /\ stray' = Strays /\ unbacked' = Unbacked({})
      BY <2>2, ThreadMoves DEF MAInv, Succeeds, Remember
    <3> QED
      BY <1>2, <2>1, <3>1, <3>2 DEF MAInv
  <2>3. ASSUME Fails([Goto(t, "delete_role") EXCEPT ![t].failed = TRUE], {})
        PROVE  MAInv'
    <3>1. Moves(t, "delete_role") /\ phase' = phase /\ db' = db /\ Shape(db')
          /\ stray' = Strays /\ unbacked' = Unbacked({})
      BY <2>3, ThreadMoves DEF MAInv, Fails, Remember, Shape
    <3> QED
      BY <1>2, <2>1, <3>1 DEF MAInv
  <2> QED
    BY <1>4, <2>2, <2>3 DEF DeleteRoleMembers
<1>5. CASE DeleteRoleRow(t)
  <2>1. ASSUME Succeeds(Delete(db, "roles", id), Done(t, "no_content"))
        PROVE  MAInv'
    <3>1. /\ Shape(db') /\ DOMAIN db'.roles = DOMAIN db.roles \ {id}
          /\ db'.users = db.users /\ db'.blocks = db.blocks
          /\ db'.userRoles = db.userRoles /\ db'.rolePerms = db.rolePerms
      BY <2>1 DEF MAInv, Succeeds, Delete, Without, Restrict, Shape, Fields, Tables
    <3>2. Moves(t, "done") /\ phase' = phase
          /\ stray' = Strays /\ unbacked' = Unbacked({})
      BY <2>1, ThreadMoves DEF MAInv, Succeeds, Remember
    <3>3. \A r : PermPairs(db', r) = PermPairs(db, r)
      BY <3>1 DEF PermPairs
    <3>4. id \in RoleIDs /\ PermPairs(db, id) # {} => id \in unbacked
      BY <1>5 DEF MAInv, PermissionsHeld, DeleteRoleRow
    <3>5. PermissionsHeld'
      BY <3>1, <3>2, <3>3, <3>4 DEF MAInv, PermissionsHeld, Unbacked, Moves
    <3> QED
      BY <1>2, <3>1, <3>2, <3>5 DEF MAInv
  <2> QED
    BY <1>1, <1>5, <2>1, FailStep DEF DeleteRoleRow
<1> QED
  BY <1>3, <1>4, <1>5

-----------------------------------------------------------------------------
(* A request arrives: its first statement is still to come.                *)
LEMMA ArriveStep ==
    ASSUME MAInv, NEW t \in Threads, NEW r \in Requests, Arrive(t, r)
    PROVE  MAInv'
<1> DEFINE pc == FirstStatement[r.op]
<1>1. /\ phase = Serving /\ phase' = phase /\ db' = db /\ th[t].pc = "idle"
      /\ stray' = Strays /\ unbacked' = Unbacked({})
  BY DEF Arrive, At, Succeeds, Remember
<1>2. pc \notin DeletePcs /\ (pc \in {"select", "update", "reselect"} => r.table \in Tables)
  BY ManagementAssumption DEF FirstStatement, DeletePcs
<1>3. /\ ThreadShape'
      /\ \A o \in Threads : /\ o # t => th'[o] = th[o]
                            /\ o = t => th'[o].pc = pc /\ th'[o].req = r
  BY DEF MAInv, Arrive, Succeeds, ThreadShape, ThreadFields
<1> HIDE DEF pc
<1>4. Shape(db)' /\ RequestsInPlace'
  BY <1>1, <1>2, <1>3 DEF MAInv, Shape, RequestsInPlace
<1>5. OnlyRacesLeaveOrphans' /\ PermissionsHeld'
  BY <1>1, <1>2, <1>3
     DEF MAInv, OnlyRacesLeaveOrphans, PermissionsHeld, Strays, Unbacked, DeletePcs
<1>6. DeletedSoFar'
  BY <1>1, <1>2, <1>3 DEF MAInv, DeletedSoFar, Strays, DeletePcs, Linked
<1> QED
  BY <1>3, <1>4, <1>5, <1>6 DEF MAInv

(* During a start no request runs, so that only the rows matter.           *)
LEMMA NobodyRuns ==
    ASSUME MAInv, ThreadShape', Shape(db'),
           \A t \in Threads : th'[t].pc \in {"idle", "done"},
           DOMAIN db.users \subseteq DOMAIN db'.users,
           DOMAIN db.roles \subseteq DOMAIN db'.roles,
           NEW left, stray' = Strays, unbacked' = Unbacked(left)
    PROVE  MAInv'
<1>1. Shape(db)' /\ RequestsInPlace' /\ DeletedSoFar'
  BY DEF Shape, RequestsInPlace, DeletedSoFar
<1>2. OnlyRacesLeaveOrphans'
  BY DEF MAInv, OnlyRacesLeaveOrphans, Strays, Gained, Linked
<1>3. PermissionsHeld'
  BY DEF MAInv, PermissionsHeld, Unbacked
<1> QED
  BY <1>1, <1>2, <1>3 DEF MAInv

(* The statements of a start, their failures, and crashes.                 *)
LEMMA StartStep ==
    ASSUME MAInv, StartStatement \/ SeedFails \/ Crash
    PROVE  MAInv'
<1>1. CASE StartStatement
  <2> DEFINE s == Statements[phase]
  <2>1. \A t \in Threads : th'[t].pc \in {"idle", "done"}
    BY <1>1 DEF MAInv, RequestsInPlace, StartStatement
  <2>2. db' = InsertOrIgnore(db, s) /\ th' = th
        /\ stray' = Strays /\ unbacked' = Unbacked({})
    BY <1>1 DEF StartStatement, Remember
  <2> HIDE DEF s
  <2>3. /\ Shape(db') /\ DOMAIN db.users \subseteq DOMAIN db'.users
        /\ DOMAIN db.roles \subseteq DOMAIN db'.roles
    <3>1. CASE s.table \in Tables
      BY <2>2, <3>1, HarmlessStatements DEF MAInv, InsertOrIgnore, NothingDeleted
    <3>2. CASE s.table \notin Tables
      BY <2>2, <3>2 DEF MAInv, InsertOrIgnore, Shape, Fields, Tables
    <3> QED
      BY <3>1, <3>2
  <2> QED
    BY <2>1, <2>2, <2>3, NobodyRuns DEF MAInv, ThreadShape
<1>2. CASE SeedFails
  <2>1. /\ \A t \in Threads : th'[t].pc \in {"idle", "done"}
        /\ db' = db /\ th' = th /\ stray' = Strays
        /\ unbacked' = Unbacked({Statements[phase].id})
    BY <1>2 DEF MAInv, RequestsInPlace, SeedFails, Remember
  <2> QED
    BY <2>1, NobodyRuns DEF MAInv, ThreadShape, Shape
<1>3. CASE Crash
  <2>1. /\ \A t \in Threads : th'[t].pc \in {"idle", "done"}
        /\ ThreadShape'
    BY <1>3 DEF MAInv, Crash, ThreadShape, ThreadFields
  <2>2. db' = db /\ stray' = Strays /\ unbacked' = Unbacked(UserIDs)
    BY <1>3 DEF Crash, Remember
  <2> QED
    BY <2>1, <2>2, NobodyRuns DEF MAInv, Shape
<1> QED
  BY <1>1, <1>2, <1>3

(* MAInv is inductive.                                                     *)
LEMMA MAInvStep == MAInv /\ [MANext]_maVars => MAInv'
<1> SUFFICES ASSUME MAInv, [MANext]_maVars PROVE MAInv'
  OBVIOUS
<1>1. CASE UNCHANGED maVars
  BY <1>1 DEF maVars, MAInv, Shape, ThreadShape, RequestsInPlace,
     OnlyRacesLeaveOrphans, DeletedSoFar, PermissionsHeld
<1>2. CASE \E t \in Threads, r \in Requests : Arrive(t, r)
  BY <1>2, ArriveStep
<1>3. ASSUME NEW t \in Threads, Step(t) PROVE MAInv'
  BY <1>3, PatchStep, WriteStep, DeleteUserStep, DeleteRoleStep DEF Step
<1>4. CASE StartStatement \/ SeedFails \/ Crash
  BY <1>4, StartStep
<1> QED
  BY <1>1, <1>2, <1>3, <1>4 DEF MANext, Operate

-----------------------------------------------------------------------------
(* For any number of concurrent requests, failures of statements and       *)
(* crashes, DELETE of a user leaves no role row and no block behind unless *)
(* a request for the same user raced with it (DeleteUser, three statements *)
(* outside a transaction).                                                 *)
THEOREM NoOrphansWithoutRaces == MASpec => []OnlyRacesLeaveOrphans
<1>1. MAInv => OnlyRacesLeaveOrphans
  BY DEF MAInv
<1> QED
  BY <1>1, MAInvInit, MAInvStep, PTL DEF MASpec

(* Every permission GetUserPermissions reports is one of a role that       *)
(* GetUserRoles reports, unless DeleteRole's first statement failed for    *)
(* that role or the start seeded permissions for a role it did not insert. *)
THEOREM PermissionsExplained == MASpec => []PermissionsBacked
<1>1. MAInv => PermissionsBacked
  <2> SUFFICES ASSUME MAInv, NEW u \in UserIDs, NEW p \in GetUserPermissions(db, u)
               PROVE  \E r \in GetUserRoles(db, u) \cup unbacked :
                        <<r, p>> \in db.rolePerms
    BY DEF PermissionsBacked
  <2>1. PICK r \in RoleIDs : <<r, p>> \in db.rolePerms /\ <<u, r>> \in db.userRoles
    BY DEF GetUserPermissions
  <2>2. PermPairs(db, r) # {}
    BY <2>1 DEF PermPairs
  <2>3. r \in DOMAIN db.roles \/ r \in unbacked
    BY <2>2 DEF MAInv, PermissionsHeld
  <2> QED
    BY <2>1, <2>3 DEF GetUserRoles
<1> QED
  BY <1>1, MAInvInit, MAInvStep, PTL DEF MASpec
=============================================================================
