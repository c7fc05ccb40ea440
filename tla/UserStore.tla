----------------------------- MODULE UserStore ------------------------------
(***************************************************************************)
(* The SQLite database of internal/store/sqlite.go, one operator per SQL   *)
(* statement, as a function from the database to the database.  A          *)
(* statement is atomic; the methods of SQLiteStore run theirs outside any  *)
(* transaction.  Foreign keys are declared but never enabled, so that no   *)
(* statement looks at another table.                                       *)
(*                                                                         *)
(* Passwords, metadata and the organisation columns are left out, and so   *)
(* are the tables that nothing changes after the start (permissions,       *)
(* connections) or that nothing writes (audit_logs).                       *)
(***************************************************************************)
EXTENDS Maps, SequencesExt, Integers

CONSTANTS
    UserIDs, Emails, Names,
    RoleIDs, RoleNames, Texts,  \* roles: id, name, description
    AppIDs,                     \* ids of the clients table
    Entries,                    \* entries of a client's callback list
    Pieces,                     \* entry -> what is between its commas, trimmed
    EmptyEntry,                 \* ""
    Seeds,                      \* "users" of the seed file
    NoText,                     \* an id or email left empty in the seed file
    BuiltinText, BuiltinApps    \* what the code itself inserts

PermIDs == {"perm_read", "perm_write"}

Tables == {"users", "roles", "clients"}

Row == [users   |-> [email : Emails, name : Names],
        roles   |-> [name : RoleNames, description : Texts],
        clients |-> [name : Names, callbacks : Seq(Entries)]]

ASSUME StoreAssumption ==
    /\ {"rol_default", "rol_admin"} \subseteq RoleIDs
    /\ {"user", "admin"} \subseteq RoleNames
    /\ Pieces \in [Entries -> Seq(Entries)]
    /\ BuiltinText \in Texts
    /\ BuiltinApps \in Seq([id : AppIDs, row : Row.clients])
    /\ Seeds \in Seq([id : UserIDs \cup {NoText}, email : Emails \cup {NoText},
                      name : Names, role : {"user", "admin", "other"}])

\* CREATE TABLE ...: the tables with a row per id, and the other ones.
Empty == [users |-> << >>, roles |-> << >>, clients |-> << >>,
          userRoles |-> {}, rolePerms |-> {}, blocks |-> {}]

UniqueColumns == [users |-> {"email"}, roles |-> {"name"}, clients |-> {}]

-----------------------------------------------------------------------------
(* INSERT, UPDATE ... WHERE id = and DELETE ... WHERE id =.                *)

\* No UNIQUE error for this row.
Unique(d, table, id, row) ==
    \A o \in DOMAIN d[table] \ {id}, c \in UniqueColumns[table] :
        d[table][o][c] # row[c]

\* Slip: only the primary key is checked.
InsertableById(d, table, id, row) == id \notin DOMAIN d[table]

Insertable(d, table, id, row) ==
    id \notin DOMAIN d[table] /\ Unique(d, table, id, row)

Insert(d, table, id, row) == [d EXCEPT ![table] = Put(@, id, row)]

Updatable(d, table, id, set) ==
    id \in DOMAIN d[table] => Unique(d, table, id, Merge(d[table][id], set))

Update(d, table, id, set) ==
    IF id \in DOMAIN d[table]
    THEN [d EXCEPT ![table] = Put(@, id, Merge(@[id], set))]
    ELSE d

Delete(d, table, id) == [d EXCEPT ![table] = Without(@, {id})]

AssignRoleToUser(d, u, r) == [d EXCEPT !.userRoles = @ \cup {<<u, r>>}]
RemoveRoleFromUser(d, u, r) == [d EXCEPT !.userRoles = @ \ {<<u, r>>}]
DeleteRolesOf(d, u) == [d EXCEPT !.userRoles = {x \in @ : x[1] # u}]
DeleteMembersOf(d, r) == [d EXCEPT !.userRoles = {x \in @ : x[2] # r}]
DeletePermissionsOf(d, r) == [d EXCEPT !.rolePerms = {x \in @ : x[1] # r}]
BlockUser(d, u) == [d EXCEPT !.blocks = @ \cup {u}]
UnblockUser(d, u) == [d EXCEPT !.blocks = @ \ {u}]

\* The joins: permissions are joined to user_roles without the roles table.
GetUserRoles(d, u) == {r \in DOMAIN d.roles : <<u, r>> \in d.userRoles}
GetUserPermissions(d, u) ==
    {p \in PermIDs : \E r \in RoleIDs : /\ <<r, p>> \in d.rolePerms
                                        /\ <<u, r>> \in d.userRoles}

\* strings.Join(list, ",") when stored, split at "," and trimmed when read.
ReadBack(list) ==
    IF list \in {<< >>, <<EmptyEntry>>} THEN << >>
    ELSE FlattenSeq([i \in DOMAIN list |-> Pieces[list[i]]])

-----------------------------------------------------------------------------
(* The start: a sequence of INSERT OR IGNORE statements.                   *)

RoleIDFor(role) == IF role = "admin" THEN "rol_admin" ELSE "rol_default"

SeedRow(table, id, row) == [table |-> table, id |-> id, row |-> row]
SeedPair(table, a, b) == [table |-> table, id |-> a, row |-> <<a, b>>]

\* seedRoles and the clients of seedClientsAndConnections.
MigrationSeeds ==
    << SeedRow("roles", "rol_default", [name |-> "user", description |-> BuiltinText]),
       SeedRow("roles", "rol_admin", [name |-> "admin", description |-> BuiltinText]),
       SeedPair("rolePerms", "rol_default", "perm_read"),
       SeedPair("rolePerms", "rol_admin", "perm_read"),
       SeedPair("rolePerms", "rol_admin", "perm_write") >>
    \o [i \in DOMAIN BuiltinApps |->
          SeedRow("clients", BuiltinApps[i].id, BuiltinApps[i].row)]

\* SeedFromConfigFile: an entry without id or email is skipped, and the role
\* row is inserted whatever became of the user.
FileSeeds ==
    [i \in 1..2 * Len(Seeds) |->
       LET s == Seeds[(i + 1) \div 2]
       IN  IF s.id = NoText \/ s.email = NoText THEN [table |-> "none"]
           ELSE IF i % 2 = 1
           THEN SeedRow("users", s.id, [email |-> s.email, name |-> s.name])
           ELSE SeedPair("userRoles", s.id, RoleIDFor(s.role))]

InsertOrIgnore(d, s) ==
    IF s.table \notin DOMAIN d THEN d
    ELSE IF s.table \notin Tables THEN [d EXCEPT ![s.table] = @ \cup {s.row}]
    ELSE IF Insertable(d, s.table, s.id, s.row)
    THEN Insert(d, s.table, s.id, s.row)
    ELSE d

Statements == MigrationSeeds \o FileSeeds

\* What a whole start makes of a database.
Started(d) ==
    LET after[i \in 0..Len(Statements)] ==
          IF i = 0 THEN d ELSE InsertOrIgnore(after[i - 1], Statements[i])
    IN  after[Len(Statements)]
=============================================================================
