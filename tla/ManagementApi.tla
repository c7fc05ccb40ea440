--------------------------- MODULE ManagementApi ----------------------------
(***************************************************************************)
(* POST /dbconnections/signup and the /api/v2 handlers of                  *)
(* internal/handlers that write users, roles, blocks and clients, and the  *)
(* start of the process.  A request is a goroutine and each of its steps   *)
(* is one SQL statement with the local work after it; the requests that    *)
(* only read are the operators of UserStore.                               *)
(*                                                                         *)
(* Every statement of a request may fail: its context is cancelled when    *)
(* the client goes away, the file may stay locked beyond the driver's      *)
(* timeout, the disk may be full.  The process may stop between any two    *)
(* statements; the database file stays.                                    *)
(***************************************************************************)
EXTENDS UserStore

CONSTANTS
    Threads,     \* requests in the life of the model; each is sent once
    Requests,    \* what a request may ask for
    MaxCrashes,  \* bound on crashes
    NoRequest, NoRow

Columns == [users   |-> [email |-> Emails, name |-> Names],
            roles   |-> [name |-> RoleNames, description |-> Texts],
            clients |-> [name |-> Names, callbacks |-> Seq(Entries)]]
IDs == [users |-> UserIDs, roles |-> RoleIDs, clients |-> AppIDs]

\* What each kind of request carries besides op and id.
ASSUME ManagementAssumption ==
    /\ MaxCrashes \in Nat
    /\ NoRequest \notin Requests
    /\ \A r \in Requests :
         \/ r.op = "patch" /\ r.table \in Tables /\ r.id \in IDs[r.table]
            /\ DOMAIN r.set \subseteq DOMAIN Columns[r.table]
            /\ \A c \in DOMAIN r.set : r.set[c] \in Columns[r.table][c]
         \/ r.op = "create_user" /\ r.id \in UserIDs /\ r.set \in Row.users
            /\ r.role \in {"user", "admin", "other"} /\ r.fresh \in BOOLEAN
         \/ r.op = "create_role" /\ r.id \in RoleIDs /\ r.set \in Row.roles
            /\ r.fresh
         \/ r.op \in {"assign", "remove"} /\ r.id \in UserIDs
            /\ r.roles \in Seq(RoleIDs)
         \/ r.op \in {"delete_user", "block", "unblock"} /\ r.id \in UserIDs
         \/ r.op = "delete_role" /\ r.id \in RoleIDs
         \/ r.op = "invalid"

VARIABLES
    db,          \* the database file
    phase,       \* the next statement of the start, or Serving
    th,          \* the state of every request
    crashes,
    stray,       \* history: users written to while absent or being deleted
    bare,        \* history: users whose roles were removed or never written
    unbacked,    \* history: roles whose permissions a start or a failed DELETE left
    asked,       \* history: table -> id -> the fields last asked for
    overlapped,  \* history: roles whose PATCHes overlapped
    target       \* history: what the start under way should end with

maVars == <<db, phase, th, crashes, stray, bare, unbacked, asked, overlapped, target>>

Serving == Len(Statements) + 1

NewThread == [pc |-> "idle", req |-> NoRequest, row |-> NoRow, next |-> 1,
              failed |-> FALSE, answer |-> "none"]

MAInit ==
    /\ db = Empty
    /\ phase = 1
    /\ th = [t \in Threads |-> NewThread]
    /\ crashes = 0
    /\ stray = {} /\ bare = {} /\ unbacked = {} /\ overlapped = {}
    /\ asked = [table \in Tables |-> << >>]
    /\ target = Started(Empty)

-----------------------------------------------------------------------------
(* The histories follow from the step that is taken, the ids whose rows a  *)
(* failed statement or a crash left, and the thread whose UPDATE ran.      *)

UserPairs(d, u) == {x \in d.userRoles : x[1] = u}
PermPairs(d, r) == {x \in d.rolePerms : x[1] = r}

\* Some row refers to the user.
Linked(d, u) == UserPairs(d, u) # {} \/ u \in d.blocks

Gained(u) ==
    \/ ~(UserPairs(db', u) \subseteq UserPairs(db, u))
    \/ u \in db'.blocks \ db.blocks

BeingDeleted(u) ==
    \E t \in Threads : /\ th[t].pc \in {"delete_blocks", "delete_user"}
                       /\ th[t].req.id = u

Strays ==
    {u \in UserIDs :
       /\ Linked(db', u)
       /\ \/ u \in stray
          \/ Gained(u) /\ (u \notin DOMAIN db'.users \/ BeingDeleted(u))}

Bare(left) ==
    {u \in DOMAIN db'.users :
       /\ UserPairs(db', u) = {}
       /\ u \in bare \/ u \in left \/ UserPairs(db, u) # {}}

Unbacked(left) ==
    {r \in RoleIDs :
       /\ PermPairs(db', r) # {}
       /\ \/ r \in unbacked \/ r \in left
          \/ PermPairs(db', r) # PermPairs(db, r) /\ r \notin DOMAIN db'.roles}

Patching(t, table, id) ==
    th[t].pc = "update" /\ th[t].req.table = table /\ th[t].req.id = id

Asked(patched) ==
    [table \in Tables |-> [id \in DOMAIN db'[table] |->
       IF id \notin DOMAIN db[table] THEN db'[table][id]
       ELSE IF \E t \in patched : Patching(t, table, id)
       THEN Merge(asked[table][id], th[CHOOSE t \in patched : TRUE].req.set)
       ELSE asked[table][id]]]

Overlapped(patched) ==
    {r \in DOMAIN db'.roles :
       \/ r \in overlapped
       \/ \E t \in patched, o \in Threads \ patched :
            Patching(t, "roles", r) /\ Patching(o, "roles", r)}

Remember(left, patched) ==
    /\ stray' = Strays
    /\ bare' = Bare(left)
    /\ unbacked' = Unbacked(left)
    /\ asked' = Asked(patched)
    /\ overlapped' = Overlapped(patched)

\* A request of t whose statement succeeds with database d, or fails.
Done(t, answer) == [th EXCEPT ![t].pc = "done", ![t].answer = answer]
Fail(t, answer) ==
    [th EXCEPT ![t].pc = "done", ![t].answer = answer, ![t].failed = TRUE]
Goto(t, pc) == [th EXCEPT ![t].pc = pc]

At(t, pc) == phase = Serving /\ th[t].pc = pc

Succeeds(d, then) ==
    /\ db' = d
    /\ th' = then
    /\ Remember({}, {})
    /\ UNCHANGED <<phase, crashes, target>>

Fails(then, left) ==
    /\ th' = then
    /\ UNCHANGED <<db, phase, crashes, target>>
    /\ Remember(left, {})

-----------------------------------------------------------------------------
FirstStatement ==
    [patch |-> "select", create_user |-> "insert_user",
     delete_user |-> "delete_roles", create_role |-> "insert_role",
     delete_role |-> "delete_perms", assign |-> "assign", remove |-> "remove",
     block |-> "block", unblock |-> "unblock", invalid |-> "done"]

\* An id that uuid.New makes: nobody has used it.
Fresh(id) ==
    /\ id \notin DOMAIN db.users \cup DOMAIN db.roles
    /\ \A x \in db.userRoles : id # x[1] /\ id # x[2]
    /\ \A t \in Threads : th[t].req # NoRequest /\ th[t].req.op # "invalid"
                            => th[t].req.id # id

Arrive(t, r) ==
    /\ At(t, "idle")
    /\ r.op \in {"create_user", "create_role"} /\ r.fresh => Fresh(r.id)
    /\ Succeeds(db, [th EXCEPT ![t].pc = FirstStatement[r.op], ![t].req = r,
                               ![t].answer = IF r.op = "invalid"
                                             THEN "invalid_request" ELSE @])

(* PATCH of a user, a role or a client.                                    *)

\* A row as GetByID, GetRoleByID or GetClientByID returns it.
Seen(table, row) ==
    IF table = "clients" THEN [row EXCEPT !.callbacks = ReadBack(@)] ELSE row

\* An error and a missing row are both answered 404.
SelectRow(t) ==
    LET r == th[t].req
    IN  /\ At(t, "select")
        /\ \/ /\ r.id \in DOMAIN db[r.table]
              /\ Succeeds(db, [Goto(t, "update") EXCEPT
                                 ![t].row = Seen(r.table, db[r.table][r.id])])
           \/ /\ r.id \notin DOMAIN db[r.table]
              /\ Succeeds(db, Done(t, "not_found"))
           \/ Fails(Fail(t, "not_found"), {})

\* Slip: every UPDATE writes the whole row that was read.
WrittenWhole(s) == Merge(s.row, s.req.set)

\* UpdateUser and UpdateClient set the columns asked for, UpdateRole both.
Written(s) ==
    IF s.req.table = "roles" THEN Merge(s.row, s.req.set) ELSE s.req.set

UpdateRow(t) ==
    LET r == th[t].req
        set == Written(th[t])
    IN  /\ At(t, "update")
        /\ \/ /\ Updatable(db, r.table, r.id, set)
              /\ db' = Update(db, r.table, r.id, set)
              /\ th' = IF r.table = "roles"
                       THEN [Done(t, "ok") EXCEPT ![t].row = set]
                       ELSE Goto(t, "reselect")
              /\ Remember({}, {t})
              /\ UNCHANGED <<phase, crashes, target>>
           \/ set # << >> /\ Fails(Fail(t, "server_error"), {})

\* Slip: the answer is the row read before the update.
ReselectRowOld(t) ==
    /\ At(t, "reselect")
    /\ Succeeds(db, Done(t, "ok"))

\* The error is dropped and the row used: a missing one is a nil pointer.
ReselectRow(t) ==
    LET r == th[t].req
    IN  /\ At(t, "reselect")
        /\ \/ /\ r.id \in DOMAIN db[r.table]
              /\ Succeeds(db, [Done(t, "ok") EXCEPT
                                 ![t].row = Seen(r.table, db[r.table][r.id])])
           \/ /\ r.id \notin DOMAIN db[r.table]
              /\ Succeeds(db, Done(t, "panic"))
           \/ Fails(Fail(t, "panic"), {})

(* CreateUser, from handleSignup and handleCreateUserMgmt.                 *)

InsertUser(t) ==
    LET r == th[t].req
    IN  /\ At(t, "insert_user")
        /\ \/ /\ Insertable(db, "users", r.id, r.set)
              /\ Succeeds(Insert(db, "users", r.id, r.set), Goto(t, "insert_pair"))
           \/ /\ ~Insertable(db, "users", r.id, r.set)
              /\ Succeeds(db, Done(t, "conflict"))
           \/ Fails(Fail(t, "server_error"), {})

\* Slip: only known roles get a row.
InsertUserRoleKnown(t) ==
    /\ At(t, "insert_pair")
    /\ Succeeds(IF th[t].req.role = "other" THEN db
                ELSE AssignRoleToUser(db, th[t].req.id, RoleIDFor(th[t].req.role)),
                Done(t, "created"))

\* The error is dropped.
InsertUserRole(t) ==
    LET r == th[t].req
    IN  /\ At(t, "insert_pair")
        /\ \/ Succeeds(AssignRoleToUser(db, r.id, RoleIDFor(r.role)),
                       Done(t, "created"))
           \/ Fails(Fail(t, "created"), {r.id})

(* DeleteUser, from handleDeleteUser.                                      *)

\* Slip: the user's own row goes first.
DeleteUserRolesLast(t) ==
    /\ At(t, "delete_roles")
    /\ Succeeds(Delete(db, "users", th[t].req.id), Goto(t, "delete_blocks"))

DeleteUserRoles(t) ==
    /\ At(t, "delete_roles")
    /\ \/ Succeeds(DeleteRolesOf(db, th[t].req.id), Goto(t, "delete_blocks"))
       \/ Fails(Fail(t, "server_error"), {})

DeleteUserBlocks(t) ==
    /\ At(t, "delete_blocks")
    /\ \/ Succeeds(UnblockUser(db, th[t].req.id), Goto(t, "delete_user"))
       \/ Fails(Fail(t, "server_error"), {})

DeleteUserRow(t) ==
    /\ At(t, "delete_user")
    /\ \/ Succeeds(Delete(db, "users", th[t].req.id), Done(t, "no_content"))
       \/ Fails(Fail(t, "server_error"), {})

(* handleUserRolesModify: a statement for each role, errors are dropped.   *)
ModifyRoles(t) ==
    LET s == th[t]
        r == s.req
        next == [th EXCEPT ![t].next = @ + 1]
    IN  /\ At(t, "assign") \/ At(t, "remove")
        /\ \/ s.next > Len(r.roles) /\ Succeeds(db, Done(t, "no_content"))
           \/ /\ s.next <= Len(r.roles)
              /\ \/ Succeeds(IF r.op = "assign"
                             THEN AssignRoleToUser(db, r.id, r.roles[s.next])
                             ELSE RemoveRoleFromUser(db, r.id, r.roles[s.next]),
                             next)
                 \/ Fails([next EXCEPT ![t].failed = TRUE], {})

(* handleUserBlocksModify.                                                 *)
ModifyBlocks(t) ==
    LET r == th[t].req
    IN  \/ At(t, "block") /\ Succeeds(BlockUser(db, r.id), Done(t, "no_content"))
        \/ At(t, "unblock") /\ Succeeds(UnblockUser(db, r.id), Done(t, "no_content"))
        \/ /\ At(t, "block") \/ At(t, "unblock")
           /\ Fails(Fail(t, "server_error"), {})

(* CreateRole and DeleteRole; DeleteRole drops its first two errors.       *)
CreateRole(t) ==
    LET r == th[t].req
    IN  /\ At(t, "insert_role")
        /\ \/ /\ Insertable(db, "roles", r.id, r.set)
              /\ Succeeds(Insert(db, "roles", r.id, r.set), Done(t, "created"))
           \/ /\ ~Insertable(db, "roles", r.id, r.set)
              /\ Succeeds(db, Done(t, "conflict"))
           \/ Fails(Fail(t, "server_error"), {})

\* Slip: the role's own row goes first.
DeleteRolePermissionsLast(t) ==
    /\ At(t, "delete_perms")
    /\ Succeeds(Delete(db, "roles", th[t].req.id), Goto(t, "delete_members"))

DeleteRolePermissions(t) ==
    LET next == Goto(t, "delete_members")
    IN  /\ At(t, "delete_perms")
        /\ \/ Succeeds(DeletePermissionsOf(db, th[t].req.id), next)
           \/ Fails([next EXCEPT ![t].failed = TRUE], {th[t].req.id})

DeleteRoleMembers(t) ==
    LET next == Goto(t, "delete_role")
    IN  /\ At(t, "delete_members")
        /\ \/ Succeeds(DeleteMembersOf(db, th[t].req.id), next)
           \/ Fails([next EXCEPT ![t].failed = TRUE], {})

DeleteRoleRow(t) ==
    /\ At(t, "delete_role")
    /\ \/ Succeeds(Delete(db, "roles", th[t].req.id), Done(t, "no_content"))
       \/ Fails(Fail(t, "server_error"), {})

-----------------------------------------------------------------------------
(* The start of the process, and its end.                                  *)

\* Slip: a user that is there already is skipped with its role.
StartStatementSkips ==
    /\ phase # Serving
    /\ LET s == Statements[phase]
       IN  /\ db' = InsertOrIgnore(db, s)
           /\ phase' = IF s.table = "users" /\ db' = db THEN phase + 2 ELSE phase + 1
    /\ target' = IF phase' = Serving THEN Empty ELSE target
    /\ UNCHANGED <<th, crashes>>
    /\ Remember({}, {})

StartStatement ==
    /\ phase # Serving
    /\ db' = InsertOrIgnore(db, Statements[phase])
    /\ phase' = phase + 1
    /\ target' = IF phase' = Serving THEN Empty ELSE target
    /\ UNCHANGED <<th, crashes>>
    /\ Remember({}, {})

\* An error ends SeedFromConfigFile, and main serves all the same; that of a
\* role row is dropped.  (An error of migrate ends the process: Crash.)
SeedFails ==
    /\ phase # Serving
    /\ Statements[phase].table \in {"users", "userRoles"}
    /\ phase' = IF Statements[phase].table = "users" THEN Serving ELSE phase + 1
    /\ target' = Empty
    /\ UNCHANGED <<db, th, crashes>>
    /\ Remember({Statements[phase].id}, {})

Crash ==
    /\ crashes < MaxCrashes
    /\ crashes' = crashes + 1
    /\ phase' = 1
    /\ th' = [t \in Threads |-> IF th[t].pc \in {"idle", "done"} THEN th[t]
                                ELSE [th[t] EXCEPT !.pc = "done", !.answer = "lost"]]
    /\ target' = IF target = Empty THEN Started(db) ELSE target
    /\ UNCHANGED db
    /\ Remember(UserIDs, {})

Step(t) ==
    \/ SelectRow(t) \/ UpdateRow(t) \/ ReselectRow(t)
    \/ InsertUser(t) \/ InsertUserRole(t)
    \/ DeleteUserRoles(t) \/ DeleteUserBlocks(t) \/ DeleteUserRow(t)
    \/ ModifyRoles(t) \/ ModifyBlocks(t) \/ CreateRole(t)
    \/ DeleteRolePermissions(t) \/ DeleteRoleMembers(t) \/ DeleteRoleRow(t)

Operate ==
    \/ \E t \in Threads, r \in Requests : Arrive(t, r)
    \/ \E t \in Threads : Step(t)
    \/ StartStatement
    \/ SeedFails

MANext == Operate \/ Crash

MASpec == MAInit /\ [][MANext]_maVars

-----------------------------------------------------------------------------
(* The type invariant of the tables and the requests: ids are primary keys,*)
(* and the columns declared UNIQUE are, whatever PATCHes do.               *)
MATypeOK ==
    /\ \A table \in Tables : \A id \in DOMAIN db[table] :
         /\ id \in IDs[table]
         /\ db[table][id] \in Row[table]
         /\ Unique(db, table, id, db[table][id])
    /\ db.userRoles \subseteq UserIDs \X RoleIDs
    /\ db.rolePerms \subseteq RoleIDs \X PermIDs
    /\ db.blocks \subseteq UserIDs
    /\ phase \in 1..Serving
    /\ crashes \in 0..MaxCrashes
    /\ \A t \in Threads : th[t].req \in Requests \cup {NoRequest}

(* DeleteUser leaves nothing of a user behind: roles or a block of a user  *)
(* that does not exist were written while the user did not exist, or while *)
(* a DeleteUser of the same user was between two of its statements; never  *)
(* by a statement that failed or a crash in between.                       *)
OnlyRacesLeaveOrphans ==
    \A u \in UserIDs \ DOMAIN db.users :
        Linked(db, u) => u \in stray

(* A user without any role had them taken away by a request, or is the     *)
(* user of a CreateUser, or of a seeding, cut short after its first        *)
(* statement by an error or a crash.                                       *)
RolelessOnlyIfCut ==
    phase = Serving =>
        \A u \in DOMAIN db.users :
            \/ UserPairs(db, u) # {}
            \/ u \in bare
            \/ \E t \in Threads : th[t].pc = "insert_pair" /\ th[t].req.id = u

(* A user's permissions are explained by the user's roles: one that        *)
(* GetUserPermissions reports is a permission of a role that GetUserRoles  *)
(* reports, unless that role's permissions were left by a DELETE that      *)
(* failed or by a start that found the seeded role's name taken.           *)
PermissionsBacked ==
    \A u \in UserIDs : \A p \in GetUserPermissions(db, u) :
        \E r \in GetUserRoles(db, u) \cup unbacked : <<r, p>> \in db.rolePerms

(* No PATCH undoes another one: every column has the value last asked for, *)
(* however PATCHes interleave; for roles, whose PATCH writes back what it  *)
(* read, unless two PATCHes of the role overlapped.                        *)
PatchesStick ==
    \A table \in Tables : \A id \in DOMAIN db[table] :
        \/ db[table][id] = asked[table][id]
        \/ table = "roles" /\ id \in overlapped

\* A DELETE of the user that request t is about has come.
UserDeletedFor(t) ==
    \E o \in Threads : /\ th[o].req # NoRequest /\ th[o].req.op = "delete_user"
                       /\ th[o].req.id = th[t].req.id

\* No entry of the list is changed by joining and splitting.
Clean(list) == ReadBack(list) = list

(* A PATCH answers with what it wrote, except where another PATCH of the   *)
(* column or a DELETE of the user (who may be created anew) came in        *)
(* between, or the list cannot be stored; it panics only after an error or *)
(* a DELETE of the user.                                                   *)
PatchAnswersItsWrite ==
    \A t \in Threads : LET s == th[t] IN
        s.req # NoRequest /\ s.req.op = "patch" =>
          /\ s.answer = "ok" => \A c \in DOMAIN s.req.set :
               \/ s.row[c] = s.req.set[c]
               \/ c = "callbacks" /\ ~Clean(s.req.set[c])
               \/ \E o \in Threads \ {t} :
                    /\ th[o].req # NoRequest /\ th[o].req.op = "patch"
                    /\ th[o].req.table = s.req.table /\ th[o].req.id = s.req.id
                    /\ c \in DOMAIN th[o].req.set
               \/ s.req.table = "users" /\ UserDeletedFor(t)
          /\ s.answer = "panic" =>
               \/ s.failed
               \/ s.req.table = "users" /\ UserDeletedFor(t)

(* README, SEED_USERS_PATH, "Idempotent (INSERT OR IGNORE)": a start none  *)
(* of whose statements fails ends with the database that an uninterrupted  *)
(* first attempt would have made, after any number of crashes during the   *)
(* attempts before it.                                                     *)
SeedConverges ==
    [][StartStatement /\ phase' = Serving => target \in {Empty, db'}]_maVars
=============================================================================
