------------------------ MODULE ManagementRowsProofs ------------------------
(* What the rows of the database hold, and what a PATCH answers: proofs    *)
(* about ManagementApi on top of the invariant of ManagementApiProofs.     *)
EXTENDS ManagementApiProofs, FiniteSetTheorems

RelationsTyped(d) ==
    /\ d.userRoles \subseteq UserIDs \X RoleIDs
    /\ d.rolePerms \subseteq RoleIDs \X PermIDs
    /\ d.blocks \subseteq UserIDs
RowTyped(d, table, id) ==
    /\ id \in IDs[table]
    /\ d[table][id] \in Row[table]
    /\ Unique(d, table, id, d[table][id])
TablesTyped(d) ==
    \A table \in Tables : \A id \in DOMAIN d[table] : RowTyped(d, table, id)

SetTyped(table, set) ==
    /\ DOMAIN set \subseteq DOMAIN Columns[table]
    /\ \A c \in DOMAIN set : set[c] \in Columns[table][c]

(* Which statements a request of each kind runs.                           *)
PcsOf ==
    [patch       |-> {"select", "update", "reselect"},
     create_user |-> {"insert_user", "insert_pair"},
     delete_user |-> {"delete_roles", "delete_blocks", "delete_user"},
     create_role |-> {"insert_role"},
     delete_role |-> {"delete_perms", "delete_members", "delete_role"},
     assign |-> {"assign"}, remove |-> {"remove"},
     block |-> {"block"}, unblock |-> {"unblock"}, invalid |-> {}]

RequestKnown(t) ==
    LET s == th[t]
    IN  /\ s.pc = "idle" => s.req = NoRequest
        /\ s.pc # "idle" => s.req \in Requests /\ s.pc \in PcsOf[s.req.op] \cup {"done"}
        /\ s.pc = "done" <=> s.answer # "none"
        /\ s.answer \in {"ok", "panic"} => s.req.op = "patch"
        /\ s.next \in Nat \ {0}
RequestsKnown == \A t \in Threads : RequestKnown(t)

(* The strengthening of RolelessOnlyIfCut: during a start, the next        *)
(* statement is the missing one.                                           *)
Roleless(u) == u \in DOMAIN db.users /\ UserPairs(db, u) = {} /\ u \notin bare
AboutToGetRole(u) ==
    IF phase = Serving
    THEN \E t \in Threads : th[t].pc = "insert_pair" /\ th[t].req.id = u
    ELSE Statements[phase].table = "userRoles" /\ Statements[phase].id = u
RolelessExplained == \A u \in UserIDs : Roleless(u) => AboutToGetRole(u)

(* The strengthening of PatchesStick: the PATCH of a role holds the row as *)
(* it is, and a role about to be created is in no PATCH's hands.           *)
RoleReadIsCurrent ==
    \A t \in Threads : th[t].pc = "update" /\ th[t].req.table = "roles" =>
        /\ th[t].row \in Row.roles
        /\ LET r == th[t].req.id
           IN  r \in DOMAIN db.roles /\ r \notin overlapped => th[t].row = db.roles[r]
NewRolesAreNew ==
    \A t \in Threads : th[t].pc = "insert_role" =>
        /\ th[t].req.id \notin DOMAIN db.roles
        /\ \A o \in Threads \ {t} :
             /\ th[o].pc = "insert_role" => th[o].req.id # th[t].req.id
             /\ ~Patching(o, "roles", th[t].req.id)

(* The strengthening of PatchAnswersItsWrite: what request t has written   *)
(* stands unless somebody else came in between.                            *)
Removed(t) == th[t].req.table = "users" /\ UserDeletedFor(t)
Rival(t, c) ==
    \E o \in Threads \ {t} :
        /\ th[o].req # NoRequest /\ th[o].req.op = "patch"
        /\ th[o].req.table = th[t].req.table /\ th[o].req.id = th[t].req.id
        /\ c \in DOMAIN th[o].req.set
Present(t) == th[t].req.id \in DOMAIN db[th[t].req.table]
Stands(t) ==
    LET r == th[t].req
    IN  /\ r.id \in DOMAIN db[r.table]
        /\ \A c \in DOMAIN r.set : db[r.table][r.id][c] = r.set[c] \/ Rival(t, c)
PatchStands(t) ==
    LET s == th[t]
    IN  /\ s.pc = "update" /\ s.req.table # "roles" => Present(t) \/ Removed(t)
        /\ s.pc = "reselect" => s.req.table # "roles"
        /\ (s.pc = "reselect" \/ s.answer = "ok") /\ s.req.table # "roles"
             => Stands(t) \/ Removed(t)
Answered(t) ==
    LET s == th[t]
    IN  /\ s.answer = "ok" => \A c \in DOMAIN s.req.set :
             \/ s.row[c] = s.req.set[c]
             \/ c = "callbacks" /\ ~Clean(s.req.set[c])
             \/ Rival(t, c)
             \/ Removed(t)
        /\ s.answer = "panic" => s.failed \/ Removed(t)
PatchesStand == \A t \in Threads : PatchStands(t) /\ Answered(t)

(* The inductive invariant of the rows.                                    *)
MRInv ==
    /\ MAInv
    /\ MATypeOK
    /\ RequestsKnown
    /\ RolelessExplained
    /\ PatchesStick
    /\ RoleReadIsCurrent
    /\ NewRolesAreNew
    /\ PatchesStand

-----------------------------------------------------------------------------
(* The operators of the database.                                          *)

LEMMA RowFields ==
    ASSUME NEW table \in Tables, NEW row \in Row[table]
    PROVE  /\ DOMAIN row = DOMAIN Columns[table]
           /\ \A c \in DOMAIN row : row[c] \in Columns[table][c]
           /\ row = [c \in DOMAIN row |-> row[c]]
<1>1. CASE table = "users"
  BY <1>1 DEF Row, Columns
<1>2. CASE table = "roles"
  BY <1>2 DEF Row, Columns
<1>3. CASE table = "clients"
  BY <1>3 DEF Row, Columns
<1> QED
  BY <1>1, <1>2, <1>3 DEF Tables

LEMMA MergeTyped ==
    ASSUME NEW table \in Tables, NEW row \in Row[table],
           NEW set, SetTyped(table, set)
    PROVE  Merge(row, set) \in Row[table]
<1> DEFINE new == Merge(row, set)
<1>0. /\ DOMAIN row = DOMAIN Columns[table]
      /\ \A c \in DOMAIN row : row[c] \in Columns[table][c]
  BY RowFields
<1>1. new = [c \in DOMAIN row |-> IF c \in DOMAIN set THEN set[c] ELSE row[c]]
  BY DEF Merge
<1>2. \A c \in DOMAIN row : new[c] \in Columns[table][c]
  BY <1>0, <1>1 DEF SetTyped
<1>3. CASE table = "users"
  BY <1>0, <1>1, <1>2, <1>3 DEF Row, Columns
<1>4. CASE table = "roles"
  BY <1>0, <1>1, <1>2, <1>4 DEF Row, Columns
<1>5. CASE table = "clients"
  BY <1>0, <1>1, <1>2, <1>5 DEF Row, Columns
<1> QED
  BY <1>3, <1>4, <1>5 DEF Tables

(* The statements of a start are well formed, and the row of a user is     *)
(* followed by the user's role.                                            *)
RowStatements(table) == [table : {table}, id : IDs[table], row : Row[table]]
MigrationStatements ==
    RowStatements("roles") \cup RowStatements("clients")
      \cup [table : {"rolePerms"}, id : RoleIDs, row : RoleIDs \X PermIDs]
FileStatements ==
    RowStatements("users") \cup {[table |-> "none"]}
      \cup [table : {"userRoles"}, id : UserIDs, row : UserIDs \X RoleIDs]

LEMMA MigrationTyped == MigrationSeeds \in Seq(MigrationStatements)
<1> DEFINE first ==
      << SeedRow("roles", "rol_default", [name |-> "user", description |-> BuiltinText]),
         SeedRow("roles", "rol_admin", [name |-> "admin", description |-> BuiltinText]),
         SeedPair("rolePerms", "rol_default", "perm_read"),
         SeedPair("rolePerms", "rol_admin", "perm_read"),
         SeedPair("rolePerms", "rol_admin", "perm_write") >>
           apps == [i \in DOMAIN BuiltinApps |->
                      SeedRow("clients", BuiltinApps[i].id, BuiltinApps[i].row)]
<1>0. /\ {"rol_default", "rol_admin"} \subseteq RoleIDs
      /\ {"user", "admin"} \subseteq RoleNames /\ BuiltinText \in Texts
      /\ BuiltinApps \in Seq([id : AppIDs, row : Row.clients])
  BY StoreAssumption
<1>1. ASSUME NEW id \in {"rol_default", "rol_admin"}, NEW name \in {"user", "admin"}
      PROVE  SeedRow("roles", id, [name |-> name, description |-> BuiltinText])
               \in MigrationStatements
  BY <1>0 DEF SeedRow, MigrationStatements, RowStatements, IDs, Row
<1>2. ASSUME NEW id \in {"rol_default", "rol_admin"}, NEW p \in PermIDs
      PROVE  SeedPair("rolePerms", id, p) \in MigrationStatements
  BY <1>0 DEF SeedPair, MigrationStatements
<1>3. ASSUME NEW i \in DOMAIN BuiltinApps PROVE apps[i] \in MigrationStatements
  <2>1. PICK a \in [id : AppIDs, row : Row.clients] : a = BuiltinApps[i]
    <3> DEFINE E == [id : AppIDs, row : Row.clients]
    <3>1. BuiltinApps \in Seq(E)
      BY <1>0
    <3> HIDE DEF E
    <3>2. BuiltinApps[i] \in E
      BY <3>1
    <3> QED
      BY <3>2 DEF E
  <2>2. apps[i] = [table |-> "clients", id |-> a.id, row |-> a.row]
    BY <2>1 DEF SeedRow
  <2>3. a.id \in AppIDs /\ a.row \in Row["clients"]
    BY <2>1
  <2> HIDE DEF apps
  <2>4. apps[i] \in RowStatements("clients")
    BY <2>2, <2>3 DEF RowStatements, IDs
  <2> QED
    BY <2>4 DEF MigrationStatements
<1>4. apps \in Seq(MigrationStatements)
  BY <1>0, <1>3
<1>5. first \in Seq(MigrationStatements)
  BY <1>1, <1>2 DEF PermIDs
<1> HIDE DEF first, apps
<1>6. first \o apps \in Seq(MigrationStatements)
  BY <1>4, <1>5
<1> QED
  BY <1>6 DEF MigrationSeeds, first, apps

LEMMA FileTyped ==
    /\ FileSeeds \in Seq(FileStatements)
    /\ \A i \in DOMAIN FileSeeds :
         /\ FileSeeds[i].table = "users" =>
              /\ i + 1 \in DOMAIN FileSeeds
              /\ FileSeeds[i + 1].table = "userRoles"
              /\ FileSeeds[i + 1].id = FileSeeds[i].id
         /\ FileSeeds[i].table = "userRoles" =>
              FileSeeds[i].row[1] = FileSeeds[i].id
<1>0. Seeds \in Seq([id : UserIDs \cup {NoText}, email : Emails \cup {NoText},
                     name : Names, role : {"user", "admin", "other"}])
      /\ {"rol_default", "rol_admin"} \subseteq RoleIDs
  BY StoreAssumption
<1>1. Len(Seeds) \in Nat
  BY <1>0
<1>2. ASSUME NEW i \in 1..2 * Len(Seeds)
      PROVE  (i + 1) \div 2 \in DOMAIN Seeds
  BY <1>0, <1>1
<1>3. ASSUME NEW i \in 1..2 * Len(Seeds)
      PROVE  FileSeeds[i] \in FileStatements
  <2> DEFINE s == Seeds[(i + 1) \div 2]
  <2>1. s \in [id : UserIDs \cup {NoText}, email : Emails \cup {NoText},
               name : Names, role : {"user", "admin", "other"}]
    <3>1. PICK k \in DOMAIN Seeds : k = (i + 1) \div 2
      BY <1>2
    <3> DEFINE E == [id : UserIDs \cup {NoText}, email : Emails \cup {NoText},
                     name : Names, role : {"user", "admin", "other"}]
    <3>2. Seeds \in Seq(E)
      BY <1>0
    <3> HIDE DEF E
    <3>3. Seeds[k] \in E
      BY <3>2
    <3> QED
      BY <3>1, <3>3 DEF E
  <2>2. FileSeeds[i] =
          IF s.id = NoText \/ s.email = NoText THEN [table |-> "none"]
          ELSE IF i % 2 = 1
          THEN SeedRow("users", s.id, [email |-> s.email, name |-> s.name])
          ELSE SeedPair("userRoles", s.id, RoleIDFor(s.role))
    BY DEF FileSeeds
  <2> HIDE DEF s
  <2>3. ASSUME s.id # NoText, s.email # NoText
        PROVE  /\ SeedRow("users", s.id, [email |-> s.email, name |-> s.name])
                    \in RowStatements("users")
               /\ SeedPair("userRoles", s.id, RoleIDFor(s.role)) \in
                    [table : {"userRoles"}, id : UserIDs, row : UserIDs \X RoleIDs]
    BY <1>0, <2>1, <2>3 DEF SeedRow, SeedPair, RowStatements, IDs, Row, RoleIDFor
  <2> QED
    BY <2>2, <2>3 DEF FileStatements
<1>4. FileSeeds \in Seq(FileStatements) /\ DOMAIN FileSeeds = 1..2 * Len(Seeds)
  <2>1. FileSeeds = [i \in 1..2 * Len(Seeds) |-> FileSeeds[i]]
    BY DEF FileSeeds
  <2>2. 2 * Len(Seeds) \in Nat
    BY <1>1
  <2> QED
    BY <1>3, <2>1, <2>2
<1>5. ASSUME NEW i \in DOMAIN FileSeeds, FileSeeds[i].table = "users"
      PROVE  /\ i + 1 \in DOMAIN FileSeeds
             /\ FileSeeds[i + 1].table = "userRoles"
             /\ FileSeeds[i + 1].id = FileSeeds[i].id
  <2> DEFINE s == Seeds[(i + 1) \div 2]
             r == Seeds[(i + 2) \div 2]
             n == [table |-> "none"]
  <2>0. i \in 1..2 * Len(Seeds)
    BY <1>4
  <2>1. FileSeeds[i] =
          IF s.id = NoText \/ s.email = NoText THEN n
          ELSE IF i % 2 = 1
          THEN SeedRow("users", s.id, [email |-> s.email, name |-> s.name])
          ELSE SeedPair("userRoles", s.id, RoleIDFor(s.role))
    BY <2>0 DEF FileSeeds
  <2>2. n.table # "users" /\ SeedPair("userRoles", s.id, RoleIDFor(s.role)).table # "users"
    BY DEF SeedPair
  <2> HIDE DEF s, n
  <2>3. i % 2 = 1 /\ ~(s.id = NoText \/ s.email = NoText) /\ FileSeeds[i].id = s.id
    BY <1>5, <2>1, <2>2 DEF SeedRow
  <2>4. i + 1 \in 1..2 * Len(Seeds) /\ (i + 1) % 2 # 1 /\ (i + 2) \div 2 = (i + 1) \div 2
    BY <1>1, <2>0, <2>3
  <2>5. FileSeeds[i + 1] =
          IF r.id = NoText \/ r.email = NoText THEN n
          ELSE IF (i + 1) % 2 = 1
          THEN SeedRow("users", r.id, [email |-> r.email, name |-> r.name])
          ELSE SeedPair("userRoles", r.id, RoleIDFor(r.role))
    <3>1. (i + 1) + 1 = i + 2
      BY <2>0
    <3> QED
      BY <2>4, <3>1 DEF FileSeeds, n
  <2>6. r = s
    BY <2>4 DEF s
  <2> HIDE DEF r
  <2>7. FileSeeds[i + 1] = SeedPair("userRoles", s.id, RoleIDFor(s.role))
    BY <2>3, <2>4, <2>5, <2>6
  <2> QED
    BY <1>4, <2>3, <2>4, <2>7 DEF SeedPair
<1>6. ASSUME NEW i \in DOMAIN FileSeeds, FileSeeds[i].table = "userRoles"
      PROVE  FileSeeds[i].row[1] = FileSeeds[i].id
  <2> DEFINE s == Seeds[(i + 1) \div 2]
             n == [table |-> "none"]
             u == SeedRow("users", s.id, [email |-> s.email, name |-> s.name])
             p == SeedPair("userRoles", s.id, RoleIDFor(s.role))
  <2>1. FileSeeds[i] = n \/ FileSeeds[i] = u \/ FileSeeds[i] = p
    BY <1>4 DEF FileSeeds
  <2>2. /\ n.table # "userRoles" /\ u.table # "userRoles"
        /\ p.row[1] = p.id
    BY DEF SeedRow, SeedPair
  <2> HIDE DEF n, u, p
  <2> QED
    BY <1>6, <2>1, <2>2
<1> QED
  BY <1>4, <1>5, <1>6

StatementTyped(s) ==
    /\ s.table \in {"users", "roles", "clients", "userRoles", "rolePerms", "none"}
    /\ s.table \in Tables => s.id \in IDs[s.table] /\ s.row \in Row[s.table]
    /\ s.table = "userRoles" =>
         /\ s.row \in UserIDs \X RoleIDs /\ s.id \in UserIDs /\ s.row[1] = s.id
    /\ s.table = "rolePerms" => s.row \in RoleIDs \X PermIDs

LEMMA StatementsTyped ==
    /\ Len(Statements) \in Nat
    /\ \A i \in 1..Len(Statements) :
         /\ StatementTyped(Statements[i])
         /\ Statements[i].table = "users" =>
              /\ i + 1 \in 1..Len(Statements)
              /\ Statements[i + 1].table = "userRoles"
              /\ Statements[i + 1].id = Statements[i].id
<1> DEFINE m == MigrationSeeds
           f == FileSeeds
           S == MigrationStatements \cup FileStatements
<1>0. /\ m \in Seq(MigrationStatements) /\ f \in Seq(FileStatements)
      /\ m \in Seq(S) /\ f \in Seq(S)
  BY MigrationTyped, FileTyped
<1>1. /\ Statements \in Seq(S) /\ Len(Statements) = Len(m) + Len(f)
      /\ Len(m) \in Nat /\ Len(f) \in Nat
      /\ \A i \in 1..Len(m) + Len(f) :
           Statements[i] = IF i <= Len(m) THEN m[i] ELSE f[i - Len(m)]
  BY <1>0 DEF Statements
<1>2. ASSUME NEW s \in MigrationStatements
      PROVE  StatementTyped(s) /\ s.table # "users"
  BY <1>2 DEF MigrationStatements, StatementTyped, RowStatements, Tables
<1>3. ASSUME NEW s \in FileStatements, s.table = "userRoles" => s.row[1] = s.id
      PROVE  StatementTyped(s)
  BY <1>3 DEF FileStatements, StatementTyped, RowStatements, Tables
<1>4. \A i \in DOMAIN m : StatementTyped(m[i]) /\ m[i].table # "users"
  BY <1>0, <1>2
<1>5. \A i \in DOMAIN f : StatementTyped(f[i])
  BY <1>0, <1>3, FileTyped
<1>6. \A i \in DOMAIN f : f[i].table = "users" =>
        /\ i + 1 \in DOMAIN f /\ f[i + 1].table = "userRoles" /\ f[i + 1].id = f[i].id
  BY FileTyped
<1>7. DOMAIN m = 1..Len(m) /\ DOMAIN f = 1..Len(f)
  BY <1>0
<1> HIDE DEF m, f, S
<1>8. ASSUME NEW i \in 1..Len(Statements)
      PROVE  /\ StatementTyped(Statements[i])
             /\ Statements[i].table = "users" =>
                  /\ i + 1 \in 1..Len(Statements)
                  /\ Statements[i + 1].table = "userRoles"
                  /\ Statements[i + 1].id = Statements[i].id
  <2>1. CASE i <= Len(m)
    BY <1>1, <1>4, <1>7, <2>1
  <2>2. CASE i > Len(m)
    <3>1. i - Len(m) \in DOMAIN f /\ Statements[i] = f[i - Len(m)]
      BY <1>1, <1>7, <2>2
    <3>2. ASSUME Statements[i].table = "users"
          PROVE  /\ i + 1 \in 1..Len(Statements)
                 /\ Statements[i + 1] = f[(i - Len(m)) + 1]
      <4>1. (i - Len(m)) + 1 \in DOMAIN f
        BY <1>6, <3>1, <3>2
      <4>2. /\ i + 1 \in 1..Len(Statements) /\ i + 1 > Len(m)
            /\ (i + 1) - Len(m) = (i - Len(m)) + 1
        BY <1>1, <1>7, <2>2, <4>1
      <4> QED
        BY <1>1, <4>2
    <3> QED
      BY <1>5, <1>6, <3>1, <3>2
  <2> QED
    BY <1>1, <2>1, <2>2
<1> QED
  BY <1>1, <1>8

-----------------------------------------------------------------------------
(* What a step does, in the terms of the invariant.                        *)

(* Request t goes on to pc, holding row, with this answer; nobody else     *)
(* moves, and the process keeps serving.                                   *)
Turns(t, pc, row, answer) ==
    /\ phase = Serving /\ phase' = phase /\ crashes' = crashes
    /\ \A o \in Threads \ {t} : th'[o] = th[o]
    /\ th'[t].req = th[t].req
    /\ th'[t].pc = pc /\ th'[t].row = row /\ th'[t].answer = answer
    /\ th'[t].next \in Nat \ {0}

Recalls(left, patched) ==
    /\ bare' = Bare(left)
    /\ asked' = Asked(patched)
    /\ overlapped' = Overlapped(patched)

(* Only this table changes.                                                *)
Becomes(table, rows) == \A f \in Fields : db'[f] = IF f = table THEN rows ELSE db[f]
TablesKept == \A table \in Tables : db'[table] = db[table]

Plain(t) ==
    /\ th[t].pc \notin {"idle", "done"}
    /\ \E answer : \E pc \in (PcsOf[th[t].req.op] \cup {"done"})
                   \ {"update", "reselect", "insert_role", "insert_pair"} :
         /\ Turns(t, pc, th[t].row, answer)
         /\ pc = "done" <=> answer # "none"
         /\ answer \notin {"ok", "panic"}
    /\ TablesKept /\ RelationsTyped(db')
    /\ \E left : /\ Recalls(left, {})
                 /\ th[t].pc = "insert_pair" =>
                      UserPairs(db', th[t].req.id) # {} \/ th[t].req.id \in left

Reads(t) ==
    LET r == th[t].req
    IN  /\ th[t].pc = "select" /\ r.id \in DOMAIN db[r.table]
        /\ Turns(t, "update", Seen(r.table, db[r.table][r.id]), "none")
        /\ db' = db /\ Recalls({}, {})

Patches(t) ==
    LET r == th[t].req
        set == Written(th[t])
    IN  /\ th[t].pc = "update"
        /\ \/ r.table = "roles" /\ Turns(t, "done", set, "ok")
           \/ r.table # "roles" /\ Turns(t, "reselect", th[t].row, "none")
        /\ Updatable(db, r.table, r.id, set)
        /\ Becomes(r.table, IF r.id \in DOMAIN db[r.table]
                            THEN Put(db[r.table], r.id, Merge(db[r.table][r.id], set))
                            ELSE db[r.table])
        /\ Recalls({}, {t})

Rereads(t) ==
    LET r == th[t].req
    IN  /\ th[t].pc = "reselect"
        /\ \/ /\ r.id \in DOMAIN db[r.table]
              /\ Turns(t, "done", Seen(r.table, db[r.table][r.id]), "ok")
           \/ /\ r.id \in DOMAIN db[r.table] => th'[t].failed = TRUE
              /\ Turns(t, "done", th[t].row, "panic")
        /\ db' = db /\ Recalls({}, {})

Adds(t) ==
    LET r == th[t].req
    IN  /\ \/ r.op = "create_user" /\ Turns(t, "insert_pair", th[t].row, "none")
           \/ r.op = "create_role" /\ Turns(t, "done", th[t].row, "created")
        /\ LET table == IF r.op = "create_user" THEN "users" ELSE "roles"
           IN  /\ Insertable(db, table, r.id, r.set)
               /\ Becomes(table, Put(db[table], r.id, r.set))
        /\ th[t].pc \in {"insert_user", "insert_role"} /\ Recalls({}, {})

Drops(t) ==
    LET r == th[t].req
    IN  /\ Turns(t, "done", th[t].row, "no_content")
        /\ th[t].pc \in {"delete_user", "delete_role"}
        /\ LET table == IF r.op = "delete_user" THEN "users" ELSE "roles"
           IN  Becomes(table, Without(db[table], {r.id}))
        /\ Recalls({}, {})

(* What the helpers do to the requests.                                    *)
LEMMA ThreadTurns ==
    ASSUME ThreadShape, RequestsKnown, phase = Serving, phase' = phase,
           crashes' = crashes, NEW t \in Threads, NEW pc, NEW answer, NEW row
    PROVE  /\ th' = Done(t, answer) => Turns(t, "done", th[t].row, answer)
           /\ th' = Fail(t, answer) =>
                Turns(t, "done", th[t].row, answer) /\ th'[t].failed = TRUE
           /\ th' = Goto(t, pc) => Turns(t, pc, th[t].row, th[t].answer)
           /\ th' = [Goto(t, pc) EXCEPT ![t].row = row]
                => Turns(t, pc, row, th[t].answer)
           /\ th' = [Goto(t, pc) EXCEPT ![t].failed = TRUE]
                => Turns(t, pc, th[t].row, th[t].answer)
           /\ th' = [Done(t, answer) EXCEPT ![t].row = row]
                => Turns(t, "done", row, answer)
           /\ th' = [th EXCEPT ![t].next = @ + 1]
                => Turns(t, th[t].pc, th[t].row, th[t].answer)
           /\ th' = [[th EXCEPT ![t].next = @ + 1] EXCEPT ![t].failed = TRUE]
                => Turns(t, th[t].pc, th[t].row, th[t].answer)
<1>1. th[t].next \in Nat \ {0} /\ th[t].next + 1 \in Nat \ {0}
  BY DEF RequestsKnown, RequestKnown
<1> DEFINE n == th[t].next + 1
<1> HIDE DEF n
<1>2. n \in Nat \ {0}
  BY <1>1 DEF n
<1>3. th[t] = [f \in ThreadFields |-> th[t][f]] /\ t \in DOMAIN th
  BY DEF ThreadShape
<1>4. ASSUME NEW s, th' = [th EXCEPT ![t] = s], s.req = th[t].req, s.next \in Nat \ {0}
      PROVE  Turns(t, s.pc, s.row, s.answer) /\ th'[t] = s
  BY <1>4 DEF ThreadShape, Turns
<1>5. ASSUME NEW s, s = [th[t] EXCEPT !.pc = "done", !.answer = answer, !.failed = TRUE]
      PROVE  /\ s.pc = "done" /\ s.row = th[t].row /\ s.answer = answer
             /\ s.req = th[t].req /\ s.next = th[t].next /\ s.failed = TRUE
  BY <1>3, <1>5 DEF ThreadFields
<1>6. th' = Fail(t, answer) => Turns(t, "done", th[t].row, answer) /\ th'[t].failed = TRUE
  <2> DEFINE s == [th[t] EXCEPT !.pc = "done", !.answer = answer, !.failed = TRUE]
  <2>1. Fail(t, answer) = [th EXCEPT ![t] = s]
    BY <1>3 DEF Fail
  <2> HIDE DEF s
  <2>2. /\ s.pc = "done" /\ s.row = th[t].row /\ s.answer = answer
        /\ s.req = th[t].req /\ s.next = th[t].next /\ s.failed = TRUE
    BY <1>5 DEF s
  <2> QED
    BY <1>1, <1>4, <2>1, <2>2
<1>7. th' = [th EXCEPT ![t].next = n] => Turns(t, th[t].pc, th[t].row, th[t].answer)
  BY <1>2 DEF ThreadShape, ThreadFields, Turns
<1>8. th' = [[th EXCEPT ![t].next = n] EXCEPT ![t].failed = TRUE]
        => Turns(t, th[t].pc, th[t].row, th[t].answer)
  <2> DEFINE s == [[th[t] EXCEPT !.next = n] EXCEPT !.failed = TRUE]
  <2>1. [[th EXCEPT ![t].next = n] EXCEPT ![t].failed = TRUE] = [th EXCEPT ![t] = s]
    BY <1>3
  <2>2. /\ s.pc = th[t].pc /\ s.row = th[t].row /\ s.answer = th[t].answer
        /\ s.req = th[t].req /\ s.next = n
    BY <1>3 DEF ThreadFields
  <2> HIDE DEF s
  <2> QED
    BY <1>2, <1>4, <2>1, <2>2
<1>9. th' = Done(t, answer) => Turns(t, "done", th[t].row, answer)
  <2> DEFINE s == [th[t] EXCEPT !.pc = "done", !.answer = answer]
  <2>1. Done(t, answer) = [th EXCEPT ![t] = s]
    BY <1>3 DEF Done
  <2>2. /\ s.pc = "done" /\ s.row = th[t].row /\ s.answer = answer
        /\ s.req = th[t].req /\ s.next = th[t].next
    BY <1>3 DEF ThreadFields
  <2> HIDE DEF s
  <2> QED
    BY <1>1, <1>4, <2>1, <2>2
<1>10. th' = Goto(t, pc) => Turns(t, pc, th[t].row, th[t].answer)
  BY <1>1 DEF ThreadShape, ThreadFields, Turns, Goto
<1>11. th' = [Goto(t, pc) EXCEPT ![t].row = row] => Turns(t, pc, row, th[t].answer)
  <2> DEFINE s == [[th[t] EXCEPT !.pc = pc] EXCEPT !.row = row]
  <2>1. [Goto(t, pc) EXCEPT ![t].row = row] = [th EXCEPT ![t] = s]
    BY <1>3 DEF Goto
  <2>2. /\ s.pc = pc /\ s.row = row /\ s.answer = th[t].answer
        /\ s.req = th[t].req /\ s.next = th[t].next
    BY <1>3 DEF ThreadFields
  <2> HIDE DEF s
  <2> QED
    BY <1>1, <1>4, <2>1, <2>2
<1>12. th' = [Goto(t, pc) EXCEPT ![t].failed = TRUE]
        => Turns(t, pc, th[t].row, th[t].answer)
  <2> DEFINE s == [[th[t] EXCEPT !.pc = pc] EXCEPT !.failed = TRUE]
  <2>1. [Goto(t, pc) EXCEPT ![t].failed = TRUE] = [th EXCEPT ![t] = s]
    BY <1>3 DEF Goto
  <2>2. /\ s.pc = pc /\ s.row = th[t].row /\ s.answer = th[t].answer
        /\ s.req = th[t].req /\ s.next = th[t].next
    BY <1>3 DEF ThreadFields
  <2> HIDE DEF s
  <2> QED
    BY <1>1, <1>4, <2>1, <2>2
<1>13. th' = [Done(t, answer) EXCEPT ![t].row = row] => Turns(t, "done", row, answer)
  <2> DEFINE s == [[th[t] EXCEPT !.pc = "done", !.answer = answer] EXCEPT !.row = row]
  <2>1. [Done(t, answer) EXCEPT ![t].row = row] = [th EXCEPT ![t] = s]
    BY <1>3 DEF Done
  <2>2. /\ s.pc = "done" /\ s.row = row /\ s.answer = answer
        /\ s.req = th[t].req /\ s.next = th[t].next
    BY <1>3 DEF ThreadFields
  <2> HIDE DEF s
  <2>3. s.next \in Nat \ {0}
    BY <1>1, <2>2
  <2> QED
    BY <1>4, <2>1, <2>2, <2>3
<1> QED
  BY <1>6, <1>7, <1>8, <1>9, <1>10, <1>11, <1>12, <1>13 DEF n

(* What the statements do to the database, those about a user (whose role  *)
(* is any), those about a role, and those about a row.                     *)
LEMMA StatementsTouch ==
    ASSUME Shape(db), RelationsTyped(db), NEW u \in UserIDs, NEW r \in RoleIDs
    PROVE  /\ db' = db => TablesKept /\ RelationsTyped(db')
           /\ db' = AssignRoleToUser(db, u, r) =>
                TablesKept /\ RelationsTyped(db') /\ UserPairs(db', u) # {}
           /\ db' = RemoveRoleFromUser(db, u, r) => TablesKept /\ RelationsTyped(db')
           /\ db' = DeleteRolesOf(db, u) => TablesKept /\ RelationsTyped(db')
           /\ db' = BlockUser(db, u) => TablesKept /\ RelationsTyped(db')
           /\ db' = UnblockUser(db, u) => TablesKept /\ RelationsTyped(db')
<1>1. db' = db => TablesKept /\ RelationsTyped(db')
  BY DEF TablesKept
<1> USE DEF Shape, Fields, Tables, TablesKept, RelationsTyped
<1>2. db' = AssignRoleToUser(db, u, r) =>
        TablesKept /\ RelationsTyped(db') /\ UserPairs(db', u) # {}
  <2> SUFFICES ASSUME db' = AssignRoleToUser(db, u, r)
               PROVE  TablesKept /\ RelationsTyped(db') /\ UserPairs(db', u) # {}
    OBVIOUS
  <2>1. /\ TablesKept /\ RelationsTyped(db')
        /\ db'.userRoles = db.userRoles \cup {<<u, r>>}
    BY DEF AssignRoleToUser
  <2>2. <<u, r>> \in UserPairs(db', u)
    BY <2>1 DEF UserPairs
  <2> QED
    BY <2>1, <2>2
<1>3. db' = RemoveRoleFromUser(db, u, r) => TablesKept /\ RelationsTyped(db')
  BY DEF RemoveRoleFromUser
<1>4. db' = DeleteRolesOf(db, u) => TablesKept /\ RelationsTyped(db')
  BY DEF DeleteRolesOf
<1>5. db' = BlockUser(db, u) => TablesKept /\ RelationsTyped(db')
  BY DEF BlockUser
<1>6. db' = UnblockUser(db, u) => TablesKept /\ RelationsTyped(db')
  BY DEF UnblockUser
<1> QED
  BY <1>1, <1>2, <1>3, <1>4, <1>5, <1>6

LEMMA RoleStatementsTouch ==
    ASSUME Shape(db), RelationsTyped(db), NEW r \in RoleIDs
    PROVE  /\ db' = DeleteMembersOf(db, r) => TablesKept /\ RelationsTyped(db')
           /\ db' = DeletePermissionsOf(db, r) => TablesKept /\ RelationsTyped(db')
<1> USE DEF Shape, Fields, Tables, TablesKept, RelationsTyped
<1>1. db' = DeleteMembersOf(db, r) => TablesKept /\ RelationsTyped(db')
  BY DEF DeleteMembersOf
<1>2. db' = DeletePermissionsOf(db, r) => TablesKept /\ RelationsTyped(db')
  BY DEF DeletePermissionsOf
<1> QED
  BY <1>1, <1>2

LEMMA RowsTouch ==
    ASSUME Shape(db), NEW table \in Tables, NEW id, NEW row
    PROVE  /\ db' = Insert(db, table, id, row)
                => Becomes(table, Put(db[table], id, row))
           /\ db' = Delete(db, table, id) => Becomes(table, Without(db[table], {id}))
           /\ db' = Update(db, table, id, row)
                => Becomes(table, IF id \in DOMAIN db[table]
                                  THEN Put(db[table], id, Merge(db[table][id], row))
                                  ELSE db[table])
<1>1. ASSUME NEW rows, db' = [db EXCEPT ![table] = rows] PROVE Becomes(table, rows)
  BY <1>1 DEF Shape, Fields, Becomes
<1>2. db' = db => Becomes(table, db[table])
  BY DEF Becomes
<1> QED
  BY <1>1, <1>2 DEF Insert, Delete, Update

(* What a request at each of its statements asks for.                      *)
LEMMA Asking ==
    ASSUME RequestsKnown, NEW t \in Threads, NEW r, r = th[t].req,
           NEW pc, pc = th[t].pc
    PROVE  /\ pc \in {"select", "update", "reselect"} =>
                /\ r.op = "patch" /\ r.table \in Tables /\ r.id \in IDs[r.table]
                /\ SetTyped(r.table, r.set)
           /\ pc \in {"insert_user", "insert_pair"} =>
                r.op = "create_user" /\ r.id \in UserIDs /\ r.set \in Row.users
           /\ pc \in {"delete_roles", "delete_blocks", "delete_user"} =>
                r.op = "delete_user" /\ r.id \in UserIDs
           /\ pc = "insert_role" =>
                r.op = "create_role" /\ r.id \in RoleIDs /\ r.set \in Row.roles
           /\ pc \in {"delete_perms", "delete_members", "delete_role"} =>
                r.op = "delete_role" /\ r.id \in RoleIDs
           /\ pc \in {"assign", "remove"} =>
                r.op = pc /\ r.id \in UserIDs /\ r.roles \in Seq(RoleIDs)
           /\ pc \in {"block", "unblock"} => r.op = pc /\ r.id \in UserIDs
           /\ pc \notin {"idle", "done"} => th[t].answer = "none"
<1>1. CASE pc = "idle"
  BY <1>1
<1>2. CASE pc # "idle"
  <2>1. r \in Requests /\ pc \in PcsOf[r.op] \cup {"done"}
        /\ (pc = "done" <=> th[t].answer # "none")
    BY <1>2 DEF RequestsKnown, RequestKnown
  <2>2. r.op \in {"patch", "create_user", "create_role", "assign", "remove",
                  "delete_user", "block", "unblock", "delete_role", "invalid"}
    BY <2>1, ManagementAssumption
  <2>3. /\ pc \in {"select", "update", "reselect"} => r.op = "patch"
        /\ pc \in {"insert_user", "insert_pair"} => r.op = "create_user"
        /\ pc \in {"delete_roles", "delete_blocks", "delete_user"} => r.op = "delete_user"
        /\ pc = "insert_role" => r.op = "create_role"
        /\ pc \in {"delete_perms", "delete_members", "delete_role"} => r.op = "delete_role"
        /\ pc \in {"assign", "remove"} => r.op = pc
        /\ pc \in {"block", "unblock"} => r.op = pc
    BY <2>1, <2>2 DEF PcsOf
  <2>4. /\ r.op = "patch" => r.table \in Tables /\ r.id \in IDs[r.table]
                             /\ SetTyped(r.table, r.set)
        /\ r.op = "create_user" => r.id \in UserIDs /\ r.set \in Row.users
        /\ r.op \in {"assign", "remove"} => r.id \in UserIDs /\ r.roles \in Seq(RoleIDs)
        /\ r.op \in {"delete_user", "block", "unblock"} => r.id \in UserIDs
        /\ r.op = "create_role" => r.id \in RoleIDs /\ r.set \in Row.roles
        /\ r.op = "delete_role" => r.id \in RoleIDs
    BY <2>1, ManagementAssumption DEF SetTyped
  <2> QED
    BY <2>1, <2>3, <2>4
<1> QED
  BY <1>1, <1>2

(* A step that only writes pairs and blocks, or nothing.                   *)
LEMMA PlainStep ==
    ASSUME MRInv, NEW t \in Threads, th[t].pc \notin {"idle", "done"},
           NEW answer \in {"none", "not_found", "server_error", "conflict",
                           "created", "no_content"},
           NEW pc \in (PcsOf[th[t].req.op] \cup {"done"})
                        \ {"update", "reselect", "insert_role", "insert_pair"},
           Turns(t, pc, th[t].row, answer), pc = "done" <=> answer # "none",
           TablesKept, RelationsTyped(db'), NEW left, Recalls(left, {}),
           th[t].pc = "insert_pair" =>
             UserPairs(db', th[t].req.id) # {} \/ th[t].req.id \in left
    PROVE  Plain(t)
BY DEF Plain

LEMMA PatchKinds ==
    ASSUME MRInv, NEW t \in Threads, SelectRow(t) \/ UpdateRow(t) \/ ReselectRow(t)
    PROVE  Plain(t) \/ Reads(t) \/ Patches(t) \/ Rereads(t)
<1> DEFINE r == th[t].req
<1>0. /\ ThreadShape /\ RequestsKnown /\ Shape(db) /\ RelationsTyped(db)
      /\ phase = Serving
      /\ th[t].pc \in {"select", "update", "reselect"}
  BY DEF MRInv, MAInv, MATypeOK, RelationsTyped, SelectRow, UpdateRow, ReselectRow, At
<1>1. /\ r.op = "patch" /\ r.table \in Tables /\ th[t].answer = "none"
      /\ PcsOf[r.op] = {"select", "update", "reselect"}
  BY <1>0, Asking DEF PcsOf
<1>2. ASSUME NEW answer \in {"not_found", "server_error"}, NEW then,
             then = Done(t, answer) \/ then = Fail(t, answer),
             Succeeds(db, then) \/ Fails(then, {})
      PROVE  Plain(t)
  <2>1. /\ db' = db /\ phase' = phase /\ crashes' = crashes
        /\ Recalls({}, {}) /\ th' = then
    BY <1>2 DEF Succeeds, Fails, Remember, Recalls
  <2>2. Turns(t, "done", th[t].row, answer)
    BY <1>0, <1>2, <2>1, ThreadTurns
  <2>3. TablesKept /\ RelationsTyped(db')
    BY <1>0, <2>1 DEF TablesKept
  <2> QED
    BY <1>0, <2>1, <2>2, <2>3, PlainStep
<1>3. CASE SelectRow(t)
  <2>1. ASSUME r.id \in DOMAIN db[r.table],
               Succeeds(db, [Goto(t, "update") EXCEPT
                               ![t].row = Seen(r.table, db[r.table][r.id])])
        PROVE  Reads(t)
    <3>1. /\ db' = db /\ phase' = phase /\ crashes' = crashes /\ Recalls({}, {})
          /\ th' = [Goto(t, "update") EXCEPT
                      ![t].row = Seen(r.table, db[r.table][r.id])]
      BY <2>1 DEF Succeeds, Remember, Recalls
    <3>2. Turns(t, "update", Seen(r.table, db[r.table][r.id]), "none")
      BY <1>0, <1>1, <3>1, ThreadTurns
    <3> QED
      BY <1>3, <2>1, <3>1, <3>2 DEF Reads, SelectRow, At
  <2> QED
    BY <1>2, <1>3, <2>1 DEF SelectRow
<1>4. CASE UpdateRow(t)
  <2> DEFINE set == Written(th[t])
  <2>1. ASSUME Updatable(db, r.table, r.id, set),
               db' = Update(db, r.table, r.id, set),
               th' = IF r.table = "roles"
                     THEN [Done(t, "ok") EXCEPT ![t].row = set]
                     ELSE Goto(t, "reselect"),
               Remember({}, {t}), phase' = phase, crashes' = crashes
        PROVE  Patches(t)
    <3>1. Recalls({}, {t})
      BY <2>1 DEF Remember, Recalls
    <3>2. \/ r.table = "roles" /\ Turns(t, "done", set, "ok")
          \/ r.table # "roles" /\ Turns(t, "reselect", th[t].row, "none")
      BY <1>0, <1>1, <2>1, ThreadTurns
    <3>3. Becomes(r.table, IF r.id \in DOMAIN db[r.table]
                           THEN Put(db[r.table], r.id, Merge(db[r.table][r.id], set))
                           ELSE db[r.table])
      BY <1>0, <1>1, <2>1, RowsTouch
    <3> QED
      BY <1>4, <2>1, <3>1, <3>2, <3>3 DEF Patches, UpdateRow, At
  <2> QED
    BY <1>2, <1>4, <2>1 DEF UpdateRow
<1>5. CASE ReselectRow(t)
  <2>1. ASSUME r.id \in DOMAIN db[r.table],
               Succeeds(db, [Done(t, "ok") EXCEPT
                               ![t].row = Seen(r.table, db[r.table][r.id])])
        PROVE  Rereads(t)
    <3>1. /\ db' = db /\ phase' = phase /\ crashes' = crashes /\ Recalls({}, {})
          /\ th' = [Done(t, "ok") EXCEPT
                      ![t].row = Seen(r.table, db[r.table][r.id])]
      BY <2>1 DEF Succeeds, Remember, Recalls
    <3>2. Turns(t, "done", Seen(r.table, db[r.table][r.id]), "ok")
      BY <1>0, <3>1, ThreadTurns
    <3> QED
      BY <1>5, <2>1, <3>1, <3>2 DEF Rereads, ReselectRow, At
  <2>2. ASSUME \/ r.id \notin DOMAIN db[r.table] /\ Succeeds(db, Done(t, "panic"))
               \/ Fails(Fail(t, "panic"), {})
        PROVE  Rereads(t)
    <3>1. /\ db' = db /\ phase' = phase /\ crashes' = crashes /\ Recalls({}, {})
          /\ \/ r.id \notin DOMAIN db[r.table] /\ th' = Done(t, "panic")
             \/ th' = Fail(t, "panic")
      BY <2>2 DEF Succeeds, Fails, Remember, Recalls
    <3>2. /\ Turns(t, "done", th[t].row, "panic")
          /\ r.id \in DOMAIN db[r.table] => th'[t].failed = TRUE
      BY <1>0, <3>1, ThreadTurns
    <3> QED
      BY <1>5, <3>1, <3>2 DEF Rereads, ReselectRow, At
  <2> QED
    BY <1>5, <2>1, <2>2 DEF ReselectRow
<1> QED
  BY <1>3, <1>4, <1>5

LEMMA OtherKinds ==
    ASSUME MRInv, NEW t \in Threads,
           \/ InsertUser(t) \/ InsertUserRole(t)
           \/ DeleteUserRoles(t) \/ DeleteUserBlocks(t) \/ DeleteUserRow(t)
           \/ ModifyRoles(t) \/ ModifyBlocks(t) \/ CreateRole(t)
           \/ DeleteRolePermissions(t) \/ DeleteRoleMembers(t) \/ DeleteRoleRow(t)
    PROVE  Plain(t) \/ Adds(t) \/ Drops(t)
<1> DEFINE r == th[t].req
<1> USE DEF At
<1>0. /\ ThreadShape /\ RequestsKnown /\ Shape(db) /\ RelationsTyped(db)
      /\ phase = Serving /\ th[t].pc \notin {"idle", "done"}
  BY DEF MRInv, MAInv, MATypeOK, RelationsTyped, InsertUser, InsertUserRole,
     DeleteUserRoles, DeleteUserBlocks, DeleteUserRow, ModifyRoles, ModifyBlocks,
     CreateRole, DeleteRolePermissions, DeleteRoleMembers, DeleteRoleRow
<1>1. th[t].answer = "none"
  BY <1>0, Asking
<1>2. ASSUME NEW d, NEW then, Succeeds(d, then)
      PROVE  /\ db' = d /\ th' = then /\ phase' = phase /\ crashes' = crashes
             /\ Recalls({}, {})
  BY <1>2 DEF Succeeds, Remember, Recalls
<1>3. ASSUME NEW then, NEW left, Fails(then, left)
      PROVE  /\ db' = db /\ th' = then /\ phase' = phase /\ crashes' = crashes
             /\ Recalls(left, {}) /\ TablesKept /\ RelationsTyped(db')
  BY <1>0, <1>3 DEF Fails, Remember, Recalls, TablesKept
<1>4. ASSUME NEW answer \in {"server_error", "conflict", "created", "no_content"},
             NEW left, NEW then,
             then = Done(t, answer) \/ then = Fail(t, answer),
             th' = then, phase' = phase, crashes' = crashes, Recalls(left, {}),
             TablesKept, RelationsTyped(db'),
             th[t].pc = "insert_pair" => UserPairs(db', r.id) # {} \/ r.id \in left
      PROVE  Plain(t)
  <2>1. Turns(t, "done", th[t].row, answer)
    BY <1>0, <1>4, ThreadTurns
  <2> QED
    BY <1>0, <1>4, <2>1, PlainStep
<1>5. ASSUME NEW pc \in PcsOf[r.op], NEW then,
             pc \notin {"done", "update", "reselect", "insert_role", "insert_pair"},
             \/ then = Goto(t, pc) \/ then = [Goto(t, pc) EXCEPT ![t].failed = TRUE]
             \/ /\ pc = th[t].pc
                /\ \/ then = [th EXCEPT ![t].next = @ + 1]
                   \/ then = [[th EXCEPT ![t].next = @ + 1] EXCEPT ![t].failed = TRUE],
             th' = then, phase' = phase, crashes' = crashes, NEW left,
             Recalls(left, {}), TablesKept, RelationsTyped(db'),
             th[t].pc # "insert_pair"
      PROVE  Plain(t)
  <2>1. Turns(t, pc, th[t].row, "none")
    BY <1>0, <1>1, <1>5, ThreadTurns
  <2> QED
    BY <1>0, <1>5, <2>1, PlainStep
<1>6. CASE InsertUser(t)
  <2>0. /\ th[t].pc = "insert_user" /\ r.op = "create_user"
    BY <1>0, <1>6, Asking DEF InsertUser
  <2>1. ASSUME Insertable(db, "users", r.id, r.set),
               Succeeds(Insert(db, "users", r.id, r.set), Goto(t, "insert_pair"))
        PROVE  Adds(t)
    <3>1. /\ Becomes("users", Put(db.users, r.id, r.set))
          /\ Turns(t, "insert_pair", th[t].row, "none") /\ Recalls({}, {})
      BY <1>0, <1>1, <1>2, <2>1, RowsTouch, ThreadTurns DEF Tables
    <3> QED
      BY <2>0, <2>1, <3>1 DEF Adds
  <2>2. ASSUME Succeeds(db, Done(t, "conflict")) PROVE Plain(t)
    BY <1>0, <1>2, <1>4, <2>0, <2>2 DEF TablesKept
  <2>3. ASSUME Fails(Fail(t, "server_error"), {}) PROVE Plain(t)
    BY <1>3, <1>4, <2>0, <2>3
  <2> QED
    BY <1>6, <2>1, <2>2, <2>3 DEF InsertUser
<1>7. CASE CreateRole(t)
  <2>0. /\ th[t].pc = "insert_role" /\ r.op = "create_role"
    BY <1>0, <1>7, Asking DEF CreateRole
  <2>1. ASSUME Insertable(db, "roles", r.id, r.set),
               Succeeds(Insert(db, "roles", r.id, r.set), Done(t, "created"))
        PROVE  Adds(t)
    <3>1. /\ Becomes("roles", Put(db.roles, r.id, r.set))
          /\ Turns(t, "done", th[t].row, "created") /\ Recalls({}, {})
      BY <1>0, <1>2, <2>1, RowsTouch, ThreadTurns DEF Tables
    <3> QED
      BY <2>0, <2>1, <3>1 DEF Adds
  <2>2. ASSUME Succeeds(db, Done(t, "conflict")) PROVE Plain(t)
    BY <1>0, <1>2, <1>4, <2>0, <2>2 DEF TablesKept
  <2>3. ASSUME Fails(Fail(t, "server_error"), {}) PROVE Plain(t)
    BY <1>3, <1>4, <2>0, <2>3
  <2> QED
    BY <1>7, <2>1, <2>2, <2>3 DEF CreateRole
<1>8. CASE InsertUserRole(t)
  <2>0. /\ th[t].pc = "insert_pair" /\ r.id \in UserIDs
        /\ RoleIDFor(r.role) \in RoleIDs
    BY <1>0, <1>8, Asking, StoreAssumption DEF InsertUserRole, RoleIDFor
  <2>1. ASSUME Succeeds(AssignRoleToUser(db, r.id, RoleIDFor(r.role)),
                        Done(t, "created"))
        PROVE  Plain(t)
    <3>1. TablesKept /\ RelationsTyped(db') /\ UserPairs(db', r.id) # {}
      BY <1>0, <1>2, <2>0, <2>1, StatementsTouch
    <3> QED
      BY <1>2, <1>4, <2>1, <3>1
  <2>2. ASSUME Fails(Fail(t, "created"), {r.id}) PROVE Plain(t)
    BY <1>3, <1>4, <2>2
  <2> QED
    BY <1>8, <2>1, <2>2 DEF InsertUserRole
<1>9. CASE DeleteUserRoles(t) \/ DeleteUserBlocks(t) \/ DeleteUserRow(t)
  <2>0. /\ th[t].pc \in {"delete_roles", "delete_blocks", "delete_user"}
        /\ r.op = "delete_user" /\ r.id \in UserIDs
        /\ {"delete_blocks", "delete_user"} \subseteq PcsOf[r.op]
    BY <1>0, <1>9, Asking DEF DeleteUserRoles, DeleteUserBlocks, DeleteUserRow, PcsOf
  <2>1. ASSUME Fails(Fail(t, "server_error"), {}) PROVE Plain(t)
    BY <1>3, <1>4, <2>0, <2>1
  <2>2. ASSUME NEW pc \in {"delete_blocks", "delete_user"}, NEW d,
               d = DeleteRolesOf(db, r.id) \/ d = UnblockUser(db, r.id),
               Succeeds(d, Goto(t, pc))
        PROVE  Plain(t)
    <3>1. TablesKept /\ RelationsTyped(db')
      BY <1>0, <1>2, <2>0, <2>2, StatementsTouch, StoreAssumption
    <3> QED
      BY <1>2, <1>5, <2>0, <2>2, <3>1
  <2>3. ASSUME DeleteUserRow(t), Succeeds(Delete(db, "users", r.id), Done(t, "no_content"))
        PROVE  Drops(t)
    <3>1. /\ Becomes("users", Without(db.users, {r.id}))
          /\ Turns(t, "done", th[t].row, "no_content") /\ Recalls({}, {})
      BY <1>0, <1>2, <2>3, RowsTouch, ThreadTurns DEF Tables
    <3> QED
      BY <2>0, <2>3, <3>1 DEF Drops, DeleteUserRow
  <2> QED
    BY <1>9, <2>1, <2>2, <2>3 DEF DeleteUserRoles, DeleteUserBlocks, DeleteUserRow
<1>10. CASE ModifyRoles(t)
  <2>0. /\ th[t].pc \in {"assign", "remove"} /\ r.op = th[t].pc /\ r.id \in UserIDs
        /\ r.roles \in Seq(RoleIDs) /\ th[t].pc \in PcsOf[r.op]
        /\ th[t].next \in Nat \ {0}
    <3>1. th[t].pc \in {"assign", "remove"} /\ th[t].next \in Nat \ {0}
      BY <1>0, <1>10 DEF ModifyRoles, RequestsKnown, RequestKnown
    <3>2. r.op = th[t].pc /\ r.id \in UserIDs /\ r.roles \in Seq(RoleIDs)
      BY <1>0, <3>1, Asking
    <3> QED
      BY <3>1, <3>2 DEF PcsOf
  <2> DEFINE next == [th EXCEPT ![t].next = @ + 1]
  <2>1. ASSUME Succeeds(db, Done(t, "no_content")) PROVE Plain(t)
    BY <1>0, <1>2, <1>4, <2>0, <2>1 DEF TablesKept
  <2>2. ASSUME th[t].next <= Len(r.roles),
               Succeeds(IF r.op = "assign"
                        THEN AssignRoleToUser(db, r.id, r.roles[th[t].next])
                        ELSE RemoveRoleFromUser(db, r.id, r.roles[th[t].next]),
                        next)
        PROVE  Plain(t)
    <3>1. r.roles[th[t].next] \in RoleIDs
      BY <2>0, <2>2
    <3>2. TablesKept /\ RelationsTyped(db')
      BY <1>0, <1>2, <2>0, <2>2, <3>1, StatementsTouch
    <3> QED
      BY <1>2, <1>5, <2>0, <2>2, <3>2
  <2>3. ASSUME Fails([next EXCEPT ![t].failed = TRUE], {}) PROVE Plain(t)
    BY <1>3, <1>5, <2>0, <2>3
  <2> QED
    BY <1>10, <2>1, <2>2, <2>3 DEF ModifyRoles
<1>11. CASE ModifyBlocks(t)
  <2>0. th[t].pc \in {"block", "unblock"} /\ r.id \in UserIDs
    BY <1>0, <1>11, Asking DEF ModifyBlocks
  <2>1. ASSUME NEW d, d = BlockUser(db, r.id) \/ d = UnblockUser(db, r.id),
               Succeeds(d, Done(t, "no_content"))
        PROVE  Plain(t)
    <3>1. TablesKept /\ RelationsTyped(db')
      BY <1>0, <1>2, <2>0, <2>1, StatementsTouch, StoreAssumption
    <3> QED
      BY <1>2, <1>4, <2>0, <2>1, <3>1
  <2>2. ASSUME Fails(Fail(t, "server_error"), {}) PROVE Plain(t)
    BY <1>3, <1>4, <2>0, <2>2
  <2> QED
    BY <1>11, <2>1, <2>2 DEF ModifyBlocks
<1>12. CASE DeleteRolePermissions(t) \/ DeleteRoleMembers(t) \/ DeleteRoleRow(t)
  <2>0. /\ th[t].pc \in {"delete_perms", "delete_members", "delete_role"}
        /\ r.op = "delete_role" /\ r.id \in RoleIDs
        /\ {"delete_members", "delete_role"} \subseteq PcsOf[r.op]
    BY <1>0, <1>12, Asking
       DEF DeleteRolePermissions, DeleteRoleMembers, DeleteRoleRow, PcsOf
  <2>1. ASSUME NEW pc \in {"delete_members", "delete_role"}, NEW left,
               Fails([Goto(t, pc) EXCEPT ![t].failed = TRUE], left)
        PROVE  Plain(t)
    BY <1>3, <1>5, <2>0, <2>1
  <2>2. ASSUME NEW pc \in {"delete_members", "delete_role"}, NEW d,
               d = DeletePermissionsOf(db, r.id) \/ d = DeleteMembersOf(db, r.id),
               Succeeds(d, Goto(t, pc))
        PROVE  Plain(t)
    <3>1. TablesKept /\ RelationsTyped(db')
      BY <1>0, <1>2, <2>0, <2>2, RoleStatementsTouch
    <3> QED
      BY <1>2, <1>5, <2>0, <2>2, <3>1
  <2>3. ASSUME DeleteRoleRow(t), Succeeds(Delete(db, "roles", r.id), Done(t, "no_content"))
        PROVE  Drops(t)
    <3>1. /\ Becomes("roles", Without(db.roles, {r.id}))
          /\ Turns(t, "done", th[t].row, "no_content") /\ Recalls({}, {})
      BY <1>0, <1>2, <2>3, RowsTouch, ThreadTurns DEF Tables
    <3> QED
      BY <2>0, <2>3, <3>1 DEF Drops, DeleteRoleRow
  <2>4. ASSUME Fails(Fail(t, "server_error"), {}) PROVE Plain(t)
    BY <1>3, <1>4, <2>0, <2>4
  <2> QED
    BY <1>12, <2>1, <2>2, <2>3, <2>4
       DEF DeleteRolePermissions, DeleteRoleMembers, DeleteRoleRow
<1> QED
  BY <1>6, <1>7, <1>8, <1>9, <1>10, <1>11, <1>12

StepOf(t) == Plain(t) \/ Reads(t) \/ Patches(t) \/ Rereads(t) \/ Adds(t) \/ Drops(t)

LEMMA StepKinds ==
    ASSUME MRInv, NEW t \in Threads, Step(t) PROVE StepOf(t)
BY PatchKinds, OtherKinds DEF Step, StepOf

-----------------------------------------------------------------------------
(* Types: what INSERT, UPDATE and DELETE of a row do to the tables.        *)
LEMMA PutTyped ==
    ASSUME TablesTyped(db), RelationsTyped(db), NEW table \in Tables,
           NEW id \in IDs[table], NEW row \in Row[table], Unique(db, table, id, row),
           Becomes(table, Put(db[table], id, row))
    PROVE  TablesTyped(db') /\ RelationsTyped(db')
<1>1. RelationsTyped(db')
  BY DEF Becomes, RelationsTyped, Fields, Tables
<1>2. ASSUME NEW other \in Tables, NEW o \in DOMAIN db'[other]
      PROVE  RowTyped(db', other, o)
  <2>1. db'[other] = IF other = table THEN Put(db[table], id, row) ELSE db[other]
    BY DEF Becomes, Fields
  <2>2. CASE other # table
    BY <1>2, <2>1, <2>2 DEF TablesTyped, RowTyped, Unique
  <2>3. CASE other = table
    <3>1. /\ DOMAIN db'[table] = DOMAIN db[table] \cup {id}
          /\ \A x \in DOMAIN db'[table] :
               db'[table][x] = IF x = id THEN row ELSE db[table][x]
      BY <2>1, <2>3 DEF Put
    <3>2. \A x \in DOMAIN db[table] : /\ x \in IDs[table] /\ db[table][x] \in Row[table]
                                      /\ Unique(db, table, x, db[table][x])
      BY DEF TablesTyped, RowTyped
    <3>3. o \in IDs[table] /\ db'[table][o] \in Row[table]
      BY <1>2, <2>3, <3>1, <3>2
    <3>4. ASSUME NEW x \in DOMAIN db'[table] \ {o}, NEW c \in UniqueColumns[table]
          PROVE  db'[table][x][c] # db'[table][o][c]
      <4>1. CASE o = id
        BY <2>3, <3>1, <3>4, <4>1 DEF Unique
      <4>2. CASE o # id /\ x = id
        BY <1>2, <2>3, <3>1, <3>4, <4>2 DEF Unique
      <4>3. CASE o # id /\ x # id
        BY <1>2, <2>3, <3>1, <3>2, <3>4, <4>3 DEF Unique
      <4> QED
        BY <4>1, <4>2, <4>3
    <3> QED
      BY <2>3, <3>3, <3>4 DEF RowTyped, Unique
  <2> QED
    BY <2>2, <2>3
<1> QED
  BY <1>1, <1>2 DEF TablesTyped

LEMMA WithoutTyped ==
    ASSUME TablesTyped(db), RelationsTyped(db), NEW table \in Tables, NEW id,
           Becomes(table, Without(db[table], {id}))
    PROVE  TablesTyped(db') /\ RelationsTyped(db')
<1>1. RelationsTyped(db')
  BY DEF Becomes, RelationsTyped, Fields, Tables
<1>2. ASSUME NEW other \in Tables
      PROVE  /\ DOMAIN db'[other] \subseteq DOMAIN db[other]
             /\ \A o \in DOMAIN db'[other] : db'[other][o] = db[other][o]
  BY DEF Becomes, Fields, Without, Restrict
<1> QED
  BY <1>1, <1>2 DEF TablesTyped, RowTyped, Unique

LEMMA KeptTyped ==
    ASSUME TablesTyped(db), TablesKept PROVE TablesTyped(db')
BY DEF TablesKept, TablesTyped, RowTyped, Unique

(* What a PATCH writes is a row again.                                     *)
LEMMA WrittenTyped ==
    ASSUME MRInv, NEW t \in Threads, th[t].pc = "update",
           NEW r, r = th[t].req
    PROVE  /\ r.table \in Tables /\ r.id \in IDs[r.table] /\ SetTyped(r.table, r.set)
           /\ \A row \in Row[r.table] : Merge(row, Written(th[t])) \in Row[r.table]
           /\ r.table = "roles" =>
                th[t].row \in Row.roles /\ Written(th[t]) = Merge(th[t].row, r.set)
           /\ r.table # "roles" => Written(th[t]) = r.set
<1>1. r.table \in Tables /\ r.id \in IDs[r.table] /\ SetTyped(r.table, r.set)
  BY Asking DEF MRInv
<1>2. CASE r.table # "roles"
  BY <1>1, <1>2, MergeTyped DEF Written
<1>3. CASE r.table = "roles"
  <2>1. th[t].row \in Row.roles /\ Written(th[t]) = Merge(th[t].row, r.set)
    BY <1>3 DEF MRInv, RoleReadIsCurrent, Written
  <2>2. Merge(th[t].row, r.set) \in Row["roles"]
    BY <1>1, <1>3, <2>1, MergeTyped
  <2>3. SetTyped("roles", Written(th[t]))
    BY <1>1, <1>3, <2>1, <2>2, RowFields DEF SetTyped
  <2> QED
    BY <1>1, <1>3, <2>1, <2>3, MergeTyped
<1> QED
  BY <1>2, <1>3

LEMMA TypesStep ==
    ASSUME MRInv, NEW t \in Threads, StepOf(t) PROVE MATypeOK'
<1> DEFINE r == th[t].req
<1>0. /\ TablesTyped(db) /\ RelationsTyped(db) /\ RequestsKnown
      /\ phase \in 1..Serving /\ crashes \in 0..MaxCrashes
      /\ \A o \in Threads : th[o].req \in Requests \cup {NoRequest}
  BY DEF MRInv, MATypeOK, TablesTyped, RowTyped, RelationsTyped
<1>1. /\ phase' = phase /\ crashes' = crashes
      /\ \A o \in Threads : th'[o].req = th[o].req
  BY DEF StepOf, Plain, Reads, Patches, Rereads, Adds, Drops, Turns
<1>2. TablesTyped(db') /\ RelationsTyped(db')
  <2>1. CASE Plain(t)
    BY <1>0, <2>1, KeptTyped DEF Plain
  <2>2. CASE Reads(t) \/ Rereads(t)
    BY <1>0, <2>2 DEF Reads, Rereads
  <2>3. CASE Patches(t)
    <3> DEFINE set == Written(th[t])
    <3>1. r.table \in Tables /\ r.id \in IDs[r.table]
      BY <2>3, WrittenTyped DEF Patches
    <3>2. CASE r.id \in DOMAIN db[r.table]
      <4> DEFINE row == Merge(db[r.table][r.id], set)
      <4>1. /\ Becomes(r.table, Put(db[r.table], r.id, row))
            /\ Unique(db, r.table, r.id, row)
        BY <2>3, <3>2 DEF Patches, Updatable
      <4>2. row \in Row[r.table]
        BY <1>0, <2>3, <3>1, <3>2, WrittenTyped DEF Patches, TablesTyped, RowTyped
      <4> QED
        BY <1>0, <3>1, <4>1, <4>2, PutTyped
    <3>3. CASE r.id \notin DOMAIN db[r.table]
      <4>1. \A f \in Fields : db'[f] = db[f]
        BY <2>3, <3>3 DEF Patches, Becomes
      <4>2. TablesKept /\ RelationsTyped(db')
        BY <1>0, <4>1 DEF TablesKept, RelationsTyped, Fields
      <4> QED
        BY <1>0, <4>2, KeptTyped
    <3> QED
      BY <3>2, <3>3
  <2>4. CASE Adds(t)
    <3> DEFINE table == IF r.op = "create_user" THEN "users" ELSE "roles"
    <3>1. /\ table \in Tables /\ Insertable(db, table, r.id, r.set)
          /\ Becomes(table, Put(db[table], r.id, r.set))
      BY <2>4 DEF Adds, Tables
    <3>2. r.id \in IDs[table] /\ r.set \in Row[table]
      BY <1>0, <2>4, Asking DEF Adds, IDs
    <3> QED
      BY <1>0, <3>1, <3>2, PutTyped DEF Insertable
  <2>5. CASE Drops(t)
    <3> DEFINE table == IF r.op = "delete_user" THEN "users" ELSE "roles"
    <3>1. table \in Tables /\ Becomes(table, Without(db[table], {r.id}))
      BY <2>5 DEF Drops, Tables
    <3> QED
      BY <1>0, <3>1, WithoutTyped
  <2> QED
    BY <2>1, <2>2, <2>3, <2>4, <2>5 DEF StepOf
<1>3. Serving' = Serving
  BY DEF Serving
<1> QED
  BY <1>0, <1>1, <1>2, <1>3 DEF MATypeOK, TablesTyped, RowTyped, RelationsTyped

LEMMA KnownStep ==
    ASSUME MRInv, NEW t \in Threads, StepOf(t) PROVE RequestsKnown'
<1> DEFINE r == th[t].req
<1>0. RequestsKnown
  BY DEF MRInv
<1>1. /\ th[t].pc # "idle" /\ r \in Requests
      /\ \A o \in Threads \ {t} : th'[o] = th[o]
      /\ th'[t].req = r /\ th'[t].next \in Nat \ {0}
  BY <1>0 DEF StepOf, Plain, Reads, Patches, Rereads, Adds, Drops, Turns,
     RequestsKnown, RequestKnown
<1>2. /\ th'[t].pc \in PcsOf[r.op] \cup {"done"} /\ th'[t].pc # "idle"
      /\ th'[t].pc = "done" <=> th'[t].answer # "none"
      /\ th'[t].answer \in {"ok", "panic"} => r.op = "patch"
  <2>0. r.op \in DOMAIN PcsOf => "idle" \notin PcsOf[r.op]
    BY DEF PcsOf
  <2>1. r.op \in DOMAIN PcsOf
    BY <1>1, ManagementAssumption DEF PcsOf
  <2>2. CASE Plain(t)
    BY <2>0, <2>1, <2>2 DEF Plain, Turns
  <2>3. CASE Reads(t) \/ Patches(t) \/ Rereads(t)
    <3>1. r.op = "patch"
      BY <1>0, <2>3, Asking DEF Reads, Patches, Rereads
    <3> QED
      BY <2>3, <3>1 DEF Reads, Patches, Rereads, Turns, PcsOf
  <2>4. CASE Adds(t) \/ Drops(t)
    BY <2>4 DEF Adds, Drops, Turns, PcsOf
  <2> QED
    BY <2>2, <2>3, <2>4 DEF StepOf
<1>3. ASSUME NEW o \in Threads PROVE RequestKnown(o)'
  BY <1>0, <1>1, <1>2 DEF RequestsKnown, RequestKnown
<1> QED
  BY <1>3 DEF RequestsKnown

-----------------------------------------------------------------------------
(* Which rows a step of request t touches: it adds the one of a new user   *)
(* or role, drops the one of a deleted user or role, or patches one.       *)
TableOf(r) ==
    IF r.op = "patch" THEN r.table
    ELSE IF r.op \in {"create_user", "delete_user"} THEN "users" ELSE "roles"
Touched(t, table, id) == table = TableOf(th[t].req) /\ id = th[t].req.id

LEMMA RowsStep ==
    ASSUME MRInv, NEW t \in Threads, StepOf(t), NEW table \in Tables
    PROVE  /\ \A id \in DOMAIN db[table] \ DOMAIN db'[table] :
                Drops(t) /\ Touched(t, table, id)
           /\ \A id \in DOMAIN db'[table] \ DOMAIN db[table] :
                /\ Adds(t) /\ Touched(t, table, id) /\ db'[table][id] = th[t].req.set
           /\ \A id \in DOMAIN db'[table] \cap DOMAIN db[table] :
                db'[table][id] =
                  IF Patches(t) /\ Touched(t, table, id)
                  THEN Merge(db[table][id], Written(th[t])) ELSE db[table][id]
<1> DEFINE r == th[t].req
<1>0. RequestsKnown /\ table \in Fields
  BY DEF MRInv, Fields
<1>2. CASE Plain(t) \/ Reads(t) \/ Rereads(t)
  <2>1. db'[table] = db[table]
    BY <1>2 DEF Plain, TablesKept, Reads, Rereads
  <2>2. ~Patches(t)
    BY <1>2 DEF Plain, Reads, Rereads, Patches, Turns
  <2> QED
    BY <2>1, <2>2
<1>3. CASE Patches(t)
  <2>1. r.op = "patch" /\ TableOf(r) = r.table
    BY <1>0, <1>3, Asking DEF Patches, TableOf
  <2>2. CASE table # r.table
    BY <1>0, <1>3, <2>1, <2>2 DEF Patches, Becomes, Touched
  <2>3. CASE table = r.table
    <3>1. db'[table] = IF r.id \in DOMAIN db[table]
                       THEN Put(db[table], r.id, Merge(db[table][r.id], Written(th[t])))
                       ELSE db[table]
      BY <1>0, <1>3, <2>3 DEF Patches, Becomes
    <3>2. \A id : Touched(t, table, id) <=> id = r.id
      BY <2>1, <2>3 DEF Touched
    <3> QED
      BY <1>3, <3>1, <3>2 DEF Put
  <2> QED
    BY <2>2, <2>3
<1>4. CASE Adds(t)
  <2>1. /\ ~Patches(t) /\ Becomes(TableOf(r), Put(db[TableOf(r)], r.id, r.set))
        /\ r.id \notin DOMAIN db[TableOf(r)]
    BY <1>4 DEF Adds, Patches, TableOf, Insertable
  <2>2. db'[table] = IF table = TableOf(r) THEN Put(db[table], r.id, r.set)
                     ELSE db[table]
    BY <1>0, <2>1 DEF Becomes
  <2>3. CASE table = TableOf(r)
    <3>1. /\ DOMAIN db'[table] = DOMAIN db[table] \cup {r.id}
          /\ db'[table][r.id] = r.set
          /\ \A id \in DOMAIN db[table] : db'[table][id] = db[table][id]
      BY <2>1, <2>2, <2>3 DEF Put
    <3> QED
      BY <1>4, <2>1, <2>3, <3>1 DEF Touched
  <2>4. CASE table # TableOf(r)
    BY <2>1, <2>2, <2>4
  <2> QED
    BY <2>3, <2>4
<1>5. CASE Drops(t)
  <2>0. r.op \in {"delete_user", "delete_role"}
    BY <1>0, <1>5, Asking DEF Drops
  <2>1. ~Patches(t) /\ Becomes(TableOf(r), Without(db[TableOf(r)], {r.id}))
    BY <1>5, <2>0 DEF Drops, Patches, TableOf
  <2>2. db'[table] = IF table = TableOf(r) THEN Without(db[table], {r.id})
                     ELSE db[table]
    BY <1>0, <2>1 DEF Becomes
  <2>3. CASE table = TableOf(r)
    BY <1>5, <2>1, <2>2, <2>3 DEF Touched, Without, Restrict
  <2>4. CASE table # TableOf(r)
    BY <2>1, <2>2, <2>4
  <2> QED
    BY <2>3, <2>4
<1> QED
  BY <1>2, <1>3, <1>4, <1>5 DEF StepOf

(* What a step remembers of the PATCHes.                                   *)
LEMMA RecallsStep ==
    ASSUME NEW t \in Threads, StepOf(t)
    PROVE  IF Patches(t) THEN Recalls({}, {t}) ELSE \E left : Recalls(left, {})
BY DEF StepOf, Plain, Reads, Rereads, Patches, Adds, Drops

(* A row of the database after a step is the one asked for: UpdateUser and *)
(* UpdateClient write the columns of the PATCH, UpdateRole what it read    *)
(* with those columns, and what it read is the row as it is.               *)
LEMMA StickStep ==
    ASSUME MRInv, NEW t \in Threads, StepOf(t) PROVE PatchesStick'
<1> DEFINE r == th[t].req
<1> SUFFICES ASSUME NEW table \in Tables, NEW id \in DOMAIN db'[table],
                    ~(table = "roles" /\ id \in overlapped')
             PROVE  db'[table][id] = asked'[table][id]
  BY DEF PatchesStick
<1>1. ASSUME id \in DOMAIN db[table]
      PROVE  db[table][id] = asked[table][id] /\ ~(table = "roles" /\ id \in overlapped)
  <2>1. table = "roles" => id \notin overlapped
    BY RecallsStep DEF Recalls, Overlapped
  <2> QED
    BY <1>1, <2>1 DEF MRInv, PatchesStick
<1>2. CASE Patches(t)
  <2>0. th[t].pc = "update" /\ asked' = Asked({t})
    BY <1>2, RecallsStep DEF Recalls, Patches
  <2>1. r.op = "patch" /\ TableOf(r) = r.table
    BY <2>0, Asking DEF MRInv, TableOf
  <2>2. id \in DOMAIN db[table]
    BY <1>2, RowsStep DEF Patches, Adds
  <2>3. asked'[table][id] =
          IF Touched(t, table, id) THEN Merge(asked[table][id], r.set)
          ELSE asked[table][id]
    <3>1. asked'[table][id] =
            IF \E o \in {t} : Patching(o, table, id)
            THEN Merge(asked[table][id], th[CHOOSE o \in {t} : TRUE].req.set)
            ELSE asked[table][id]
      BY <2>0, <2>2 DEF Asked
    <3>2. (CHOOSE o \in {t} : TRUE) = t
      OBVIOUS
    <3>3. (\E o \in {t} : Patching(o, table, id)) <=> Touched(t, table, id)
      BY <2>0, <2>1 DEF Patching, Touched
    <3> QED
      BY <3>1, <3>2, <3>3
  <2>4. db'[table][id] = IF Touched(t, table, id)
                         THEN Merge(db[table][id], Written(th[t])) ELSE db[table][id]
    BY <1>2, <2>2, RowsStep
  <2>5. ASSUME Touched(t, table, id)
        PROVE  Merge(db[table][id], Written(th[t])) = Merge(db[table][id], r.set)
    <3>0. table = r.table /\ id = r.id
      BY <2>1, <2>5 DEF Touched
    <3>1. CASE table # "roles"
      BY <2>0, <3>0, <3>1, WrittenTyped
    <3>2. CASE table = "roles"
      <4>1. Written(th[t]) = Merge(th[t].row, r.set)
        BY <2>0, <3>0, <3>2, WrittenTyped
      <4>2. th[t].row = db[table][id]
        BY <1>1, <2>0, <2>2, <3>0, <3>2 DEF MRInv, RoleReadIsCurrent
      <4> QED
        BY <4>1, <4>2 DEF Merge
    <3> QED
      BY <3>1, <3>2
  <2> QED
    BY <1>1, <2>2, <2>3, <2>4, <2>5
<1>3. CASE ~Patches(t)
  <2>1. asked' = Asked({})
    BY <1>3, RecallsStep DEF Recalls
  <2>2. asked'[table][id] = IF id \notin DOMAIN db[table] THEN db'[table][id]
                            ELSE asked[table][id]
    BY <2>1 DEF Asked
  <2> QED
    BY <1>1, <1>3, <2>2, RowsStep
<1> QED
  BY <1>2, <1>3

(* A PATCH of a role that has read the row: another PATCH of it overlaps,  *)
(* nobody creates it anew.                                                 *)
LEMMA RoleReadStep ==
    ASSUME MRInv, NEW t \in Threads, StepOf(t) PROVE RoleReadIsCurrent'
<1> SUFFICES ASSUME NEW o \in Threads, th'[o].pc = "update", th'[o].req.table = "roles"
             PROVE  /\ th'[o].row \in Row.roles
                    /\ LET r == th'[o].req.id
                       IN  r \in DOMAIN db'.roles /\ r \notin overlapped'
                             => th'[o].row = db'.roles[r]
  BY DEF RoleReadIsCurrent
<1> DEFINE r == th'[o].req.id
<1>1. CASE Reads(t) /\ o = t
  <2>1. /\ r = th[t].req.id /\ th[t].req.table = "roles" /\ r \in DOMAIN db.roles
        /\ th'[t].row = db.roles[r] /\ db' = db
    BY <1>1 DEF Reads, Turns, Seen
  <2>2. db.roles[r] \in Row.roles
    BY <2>1 DEF MRInv, MATypeOK, Tables
  <2> QED
    BY <1>1, <2>1, <2>2
<1>2. CASE ~(Reads(t) /\ o = t)
  <2>1. o # t
    BY <1>2 DEF StepOf, Plain, Reads, Rereads, Patches, Adds, Drops, Turns
  <2>2. th'[o] = th[o]
    BY <2>1 DEF StepOf, Plain, Reads, Rereads, Patches, Adds, Drops, Turns
  <2>3. Patching(o, "roles", r)
    BY <2>2 DEF Patching
  <2>4. /\ th[o].row \in Row.roles
        /\ r \in DOMAIN db.roles /\ r \notin overlapped => th[o].row = db.roles[r]
    BY <2>2 DEF MRInv, RoleReadIsCurrent
  <2>5. ASSUME r \in DOMAIN db'.roles, r \notin overlapped'
        PROVE  th[o].row = db'.roles[r]
    <3>1. r \notin overlapped
      BY <2>5, RecallsStep DEF Recalls, Overlapped
    <3>2. r \in DOMAIN db.roles
      <4>1. SUFFICES ASSUME r \notin DOMAIN db.roles PROVE FALSE
        OBVIOUS
      <4>2. Adds(t) /\ Touched(t, "roles", r)
        BY <2>5, <4>1, RowsStep DEF Tables
      <4>3. th[t].pc = "insert_role" /\ th[t].req.id = r
        BY <4>2, Asking DEF MRInv, Adds, Touched, TableOf
      <4> QED
        BY <2>1, <2>3, <4>3 DEF MRInv, NewRolesAreNew
    <3>3. ~(Patches(t) /\ Touched(t, "roles", r))
      <4>1. SUFFICES ASSUME Patches(t), Touched(t, "roles", r) PROVE FALSE
        OBVIOUS
      <4>2. Patching(t, "roles", r)
        BY <4>1, Asking DEF MRInv, Patches, Touched, TableOf, Patching
      <4> QED
        BY <2>1, <2>3, <2>5, <4>1, <4>2, RecallsStep DEF Recalls, Overlapped
    <3> QED
      BY <2>4, <2>5, <3>1, <3>2, <3>3, RowsStep DEF Tables
  <2> QED
    BY <2>2, <2>4, <2>5
<1> QED
  BY <1>1, <1>2

LEMMA NewRolesStep ==
    ASSUME MRInv, NEW t \in Threads, StepOf(t) PROVE NewRolesAreNew'
<1> SUFFICES ASSUME NEW n \in Threads, th'[n].pc = "insert_role"
             PROVE  /\ th'[n].req.id \notin DOMAIN db'.roles
                    /\ \A o \in Threads \ {n} :
                         /\ th'[o].pc = "insert_role" => th'[o].req.id # th'[n].req.id
                         /\ ~(/\ th'[o].pc = "update" /\ th'[o].req.table = "roles"
                              /\ th'[o].req.id = th'[n].req.id)
  BY DEF NewRolesAreNew, Patching
<1>1. \A o \in Threads : /\ th'[o].req = th[o].req
                         /\ o # t => th'[o] = th[o]
                         /\ th'[o].pc = "insert_role" => o # t
                         /\ th'[o].pc = "update" => o # t \/ Reads(t)
  BY DEF StepOf, Plain, Reads, Rereads, Patches, Adds, Drops, Turns
<1> DEFINE r == th[n].req.id
<1>2. /\ n # t /\ th[n].pc = "insert_role" /\ r \notin DOMAIN db.roles
      /\ \A o \in Threads \ {n} : /\ th[o].pc = "insert_role" => th[o].req.id # r
                                  /\ ~Patching(o, "roles", r)
  BY <1>1 DEF MRInv, NewRolesAreNew
<1>3. r \notin DOMAIN db'.roles
  <2>1. SUFFICES ASSUME r \in DOMAIN db'.roles PROVE FALSE
    OBVIOUS
  <2>2. Adds(t) /\ Touched(t, "roles", r)
    BY <1>2, <2>1, RowsStep DEF Tables
  <2>3. th[t].pc = "insert_role" /\ th[t].req.id = r
    BY <2>2, Asking DEF MRInv, Adds, Touched, TableOf
  <2> QED
    BY <1>2, <2>3
<1>4. ASSUME NEW o \in Threads \ {n}, th'[o].pc = "update", th'[o].req.table = "roles"
      PROVE  th'[o].req.id # r
  <2>1. CASE o # t
    BY <1>1, <1>2, <1>4, <2>1 DEF Patching
  <2>2. CASE o = t
    BY <1>1, <1>2, <1>4, <2>2 DEF Reads
  <2> QED
    BY <2>1, <2>2
<1> QED
  BY <1>1, <1>2, <1>3, <1>4

(* A user without a role after a step had none before it, or is new and    *)
(* about to get one.                                                       *)
LEMMA RolelessStep ==
    ASSUME MRInv, NEW t \in Threads, StepOf(t) PROVE RolelessExplained'
<1> SUFFICES ASSUME NEW u \in UserIDs, u \in DOMAIN db'.users, UserPairs(db', u) = {},
                    u \notin bare'
             PROVE  \E o \in Threads : th'[o].pc = "insert_pair" /\ th'[o].req.id = u
  <2>1. phase' = Serving'
    BY DEF StepOf, Plain, Reads, Rereads, Patches, Adds, Drops, Turns, Serving
  <2> QED
    BY <2>1 DEF RolelessExplained, Roleless, AboutToGetRole
<1>0. /\ phase = Serving
      /\ \A o \in Threads : th'[o].req = th[o].req /\ (o # t => th'[o] = th[o])
  BY DEF StepOf, Plain, Reads, Rereads, Patches, Adds, Drops, Turns
<1>1. PICK left : /\ bare' = Bare(left)
                  /\ th[t].pc = "insert_pair" /\ th[t].req.id = u => u \in left
  BY DEF StepOf, Plain, Reads, Rereads, Patches, Adds, Drops, Recalls
<1>2. u \notin bare /\ u \notin left /\ UserPairs(db, u) = {}
  BY <1>1 DEF Bare
<1>3. CASE u \in DOMAIN db.users
  <2>1. PICK o \in Threads : th[o].pc = "insert_pair" /\ th[o].req.id = u
    BY <1>0, <1>2, <1>3 DEF MRInv, RolelessExplained, Roleless, AboutToGetRole
  <2> QED
    BY <1>0, <1>1, <1>2, <2>1
<1>4. CASE u \notin DOMAIN db.users
  <2>1. Adds(t) /\ Touched(t, "users", u)
    BY <1>4, RowsStep DEF Tables
  <2>2. th'[t].pc = "insert_pair" /\ th'[t].req.id = u
    BY <2>1 DEF Adds, Touched, TableOf, Turns
  <2> QED
    BY <2>2
<1> QED
  BY <1>3, <1>4

-----------------------------------------------------------------------------
(* What excuses a PATCH stays: a request never changes once it has come.   *)
LEMMA ExcusesStay ==
    ASSUME NEW t \in Threads, th'[t].req = th[t].req,
           \A o \in Threads : th[o].req # NoRequest => th'[o].req = th[o].req
    PROVE  /\ Removed(t) => Removed(t)'
           /\ \A c : Rival(t, c) => Rival(t, c)'
<1>1. Removed(t) => Removed(t)'
  BY DEF Removed, UserDeletedFor
<1>2. ASSUME NEW c, Rival(t, c) PROVE Rival(t, c)'
  BY <1>2 DEF Rival
<1> QED
  BY <1>1, <1>2

LEMMA PatchTyped ==
    ASSUME MRInv, NEW t \in Threads,
           th[t].pc \in {"update", "reselect"} \/ th[t].answer \in {"ok", "panic"},
           NEW r, r = th[t].req
    PROVE  /\ r.op = "patch" /\ r.table \in Tables /\ r # NoRequest
           /\ SetTyped(r.table, r.set)
           /\ \A row \in Row[r.table] : DOMAIN r.set \subseteq DOMAIN row
<1>1. th[t].pc # "idle" /\ r \in Requests /\ r.op = "patch"
  BY Asking DEF MRInv, RequestsKnown, RequestKnown
<1>2. r.table \in Tables /\ SetTyped(r.table, r.set) /\ r # NoRequest
  BY <1>1, ManagementAssumption DEF SetTyped
<1>3. \A row \in Row[r.table] : DOMAIN row = DOMAIN Columns[r.table]
  BY <1>2, RowFields
<1> QED
  BY <1>1, <1>2, <1>3 DEF SetTyped

(* A request that does not move: rows disappear by a DELETE, and a column  *)
(* changes by another PATCH of it.                                         *)
LEMMA OthersStand ==
    ASSUME MRInv, NEW t \in Threads, StepOf(t), NEW o \in Threads \ {t}
    PROVE  (PatchStands(o) /\ Answered(o))'
<1> DEFINE s == th[o]
           r == s.req
<1>0. /\ th'[o] = s /\ th[t].req # NoRequest
      /\ \A p \in Threads : th'[p].req = th[p].req
  <2>1. /\ \A p \in Threads \ {t} : th'[p] = th[p]
        /\ th'[t].req = th[t].req /\ th[t].pc # "idle"
    BY DEF StepOf, Plain, Reads, Rereads, Patches, Adds, Drops, Turns
  <2>2. th[t].req \in Requests
    BY <2>1 DEF MRInv, RequestsKnown, RequestKnown
  <2> QED
    BY <2>1, <2>2, ManagementAssumption
<1>1. /\ Removed(o) => Removed(o)'
      /\ \A c : Rival(o, c) => Rival(o, c)'
  BY <1>0, ExcusesStay
<1>2. PatchStands(o) /\ Answered(o)
  BY DEF MRInv, PatchesStand
<1>3. ASSUME s.pc \in {"update", "reselect"} \/ s.answer = "ok", r.table # "roles",
             Present(o)
      PROVE  Present(o)' \/ Removed(o)'
  <2>0. r.table \in Tables
    BY <1>3, PatchTyped
  <2>1. SUFFICES ASSUME ~Present(o)' PROVE Removed(o)'
    OBVIOUS
  <2>2. r.id \in DOMAIN db[r.table] \ DOMAIN db'[r.table]
    BY <1>0, <1>3, <2>1 DEF Present
  <2>3. Drops(t) /\ Touched(t, r.table, r.id)
    BY <2>0, <2>2, RowsStep
  <2>4. th[t].req.op = "delete_user" /\ r.table = "users" /\ th[t].req.id = r.id
    BY <1>3, <2>3, Asking DEF MRInv, Drops, Touched, TableOf
  <2> QED
    BY <1>0, <2>4 DEF Removed, UserDeletedFor
<1>4. ASSUME s.pc = "reselect" \/ s.answer = "ok", r.table # "roles", Stands(o)
      PROVE  Stands(o)' \/ Removed(o)'
  <2>0. /\ r.table \in Tables /\ r.op = "patch" /\ r # NoRequest
        /\ \A row \in Row[r.table] : DOMAIN r.set \subseteq DOMAIN row
    BY <1>4, PatchTyped
  <2>1. SUFFICES ASSUME Present(o)', NEW c \in DOMAIN r.set
                 PROVE  db'[r.table][r.id][c] = r.set[c] \/ Rival(o, c)'
    <3>1. Present(o)
      BY <1>4 DEF Stands, Present
    <3> QED
      BY <1>0, <1>3, <1>4, <3>1 DEF Stands, Present
  <2>2. /\ r.id \in DOMAIN db[r.table] \cap DOMAIN db'[r.table]
        /\ db[r.table][r.id][c] = r.set[c] \/ Rival(o, c)
    BY <1>0, <1>4, <2>1 DEF Stands, Present
  <2>3. db[r.table][r.id] \in Row[r.table]
    BY <2>0, <2>2 DEF MRInv, MATypeOK
  <2>4. CASE Patches(t) /\ Touched(t, r.table, r.id)
    <3>1. /\ th[t].req.op = "patch" /\ th[t].req.table = r.table /\ th[t].req.id = r.id
          /\ Written(th[t]) = th[t].req.set
      BY <1>4, <2>4, Asking, WrittenTyped DEF MRInv, Patches, Touched, TableOf
    <3>2. db'[r.table][r.id] = Merge(db[r.table][r.id], th[t].req.set)
      BY <2>0, <2>2, <2>4, <3>1, RowsStep
    <3>3. c \in DOMAIN th[t].req.set => Rival(o, c)'
      BY <1>0, <3>1 DEF Rival
    <3>4. c \notin DOMAIN th[t].req.set => db'[r.table][r.id][c] = db[r.table][r.id][c]
      BY <2>0, <2>1, <2>3, <3>2 DEF Merge
    <3> QED
      BY <1>1, <2>2, <3>3, <3>4
  <2>5. CASE ~(Patches(t) /\ Touched(t, r.table, r.id))
    BY <1>1, <2>0, <2>2, <2>5, RowsStep
  <2> QED
    BY <2>4, <2>5
<1>5. PatchStands(o)'
  BY <1>0, <1>1, <1>2, <1>3, <1>4 DEF PatchStands
<1>6. Answered(o)'
  BY <1>0, <1>1, <1>2 DEF Answered
<1> QED
  BY <1>5, <1>6

(* The PATCH that takes the step.                                          *)
LEMMA OwnStands ==
    ASSUME MRInv, NEW t \in Threads, StepOf(t)
    PROVE  (PatchStands(t) /\ Answered(t))'
<1> DEFINE r == th[t].req
<1>0. th'[t].req = r /\ \A p \in Threads : th'[p].req = th[p].req
  BY DEF StepOf, Plain, Reads, Rereads, Patches, Adds, Drops, Turns
<1>1. /\ Removed(t) => Removed(t)'
      /\ \A c : Rival(t, c) => Rival(t, c)'
  BY <1>0, ExcusesStay
<1>2. PatchStands(t)
  BY DEF MRInv, PatchesStand
<1>3. CASE Plain(t) \/ Adds(t) \/ Drops(t)
  <2>1. th'[t].pc \notin {"update", "reselect"} /\ th'[t].answer \notin {"ok", "panic"}
    BY <1>3 DEF Plain, Adds, Drops, Turns
  <2> QED
    BY <2>1 DEF PatchStands, Answered
<1>4. CASE Reads(t)
  <2>1. /\ th'[t].pc = "update" /\ th'[t].answer = "none" /\ Present(t)'
    BY <1>0, <1>4 DEF Reads, Turns, Present
  <2> QED
    BY <2>1 DEF PatchStands, Answered
<1>5. CASE Patches(t)
  <2>0. /\ th[t].pc = "update" /\ r.table \in Tables
        /\ \A row \in Row[r.table] : DOMAIN r.set \subseteq DOMAIN row
    BY <1>5, PatchTyped DEF Patches
  <2>1. CASE r.table = "roles"
    <3>1. /\ th'[t].pc = "done" /\ th'[t].answer = "ok"
          /\ th'[t].row = Merge(th[t].row, r.set) /\ th[t].row \in Row.roles
      BY <1>5, <2>0, <2>1, WrittenTyped DEF Patches, Turns
    <3>2. \A c \in DOMAIN r.set : th'[t].row[c] = r.set[c]
      BY <2>0, <2>1, <3>1 DEF Merge
    <3> QED
      BY <1>0, <2>1, <3>1, <3>2 DEF PatchStands, Answered
  <2>2. CASE r.table # "roles"
    <3>1. th'[t].pc = "reselect" /\ th'[t].answer = "none"
      BY <1>5, <2>2 DEF Patches, Turns
    <3>2. ASSUME Present(t) PROVE Stands(t)'
      <4>1. r.id \in DOMAIN db[r.table] /\ db[r.table][r.id] \in Row[r.table]
        BY <2>0, <3>2 DEF Present, MRInv, MATypeOK
      <4>2. Touched(t, r.table, r.id) /\ Written(th[t]) = r.set
        BY <2>0, <2>2, Asking, WrittenTyped DEF MRInv, Touched, TableOf
      <4>3. r.id \in DOMAIN db'[r.table]
        BY <1>5, <2>0, <4>1, RowsStep DEF Patches, Drops
      <4>4. db'[r.table][r.id] = Merge(db[r.table][r.id], r.set)
        BY <1>5, <2>0, <4>1, <4>2, <4>3, RowsStep
      <4>5. \A c \in DOMAIN r.set : db'[r.table][r.id][c] = r.set[c]
        BY <2>0, <4>1, <4>4 DEF Merge
      <4> QED
        BY <1>0, <4>3, <4>5 DEF Stands
    <3>3. Stands(t)' \/ Removed(t)'
      BY <1>1, <1>2, <2>0, <2>2, <3>2 DEF PatchStands
    <3> QED
      BY <1>0, <2>2, <3>1, <3>3 DEF PatchStands, Answered
  <2> QED
    BY <2>1, <2>2
<1>6. CASE Rereads(t)
  <2>0. /\ th[t].pc = "reselect" /\ db' = db /\ th'[t].pc = "done"
        /\ r.table \in Tables \ {"roles"} /\ SetTyped(r.table, r.set)
    BY <1>2, <1>6, PatchTyped DEF Rereads, Turns, PatchStands
  <2>1. Stands(t) \/ Removed(t)
    BY <1>2, <2>0 DEF PatchStands
  <2>2. Stands(t) => Stands(t)'
    BY <1>0, <1>1, <2>0 DEF Stands
  <2>3. CASE /\ r.id \in DOMAIN db[r.table]
             /\ th'[t].row = Seen(r.table, db[r.table][r.id]) /\ th'[t].answer = "ok"
    <3> DEFINE row == db[r.table][r.id]
    <3>1. row \in Row[r.table]
      BY <2>0, <2>3 DEF MRInv, MATypeOK
    <3>2. ASSUME NEW c \in DOMAIN r.set, row[c] = r.set[c]
          PROVE  th'[t].row[c] = r.set[c] \/ (c = "callbacks" /\ ~Clean(r.set[c]))
      <4>1. CASE r.table = "users"
        BY <2>3, <3>2, <4>1 DEF Seen
      <4>2. CASE r.table = "clients"
        <5>1. c \in {"name", "callbacks"}
          BY <2>0, <4>2 DEF SetTyped, Columns
        <5>2. th'[t].row = [row EXCEPT !.callbacks = ReadBack(row.callbacks)]
          BY <2>3, <4>2 DEF Seen
        <5>3. /\ th'[t].row.name = row.name
              /\ th'[t].row.callbacks = ReadBack(row.callbacks)
          <6> DEFINE v == ReadBack(row.callbacks)
          <6> HIDE DEF v, row
          <6>1. row \in [name : Names, callbacks : Seq(Entries)]
            BY <3>1, <4>2 DEF Row
          <6>2. th'[t].row = [row EXCEPT !.callbacks = v]
            BY <5>2 DEF v
          <6>3. th'[t].row.name = row.name /\ th'[t].row.callbacks = v
            BY <6>1, <6>2
          <6> QED
            BY <6>3 DEF v
        <5> QED
          BY <3>2, <5>1, <5>3 DEF Clean
      <4> QED
        BY <2>0, <4>1, <4>2 DEF Tables
    <3>3. \A c \in DOMAIN r.set :
            \/ th'[t].row[c] = r.set[c]
            \/ c = "callbacks" /\ ~Clean(r.set[c])
            \/ Rival(t, c)' \/ Removed(t)'
      BY <1>1, <2>1, <3>2 DEF Stands
    <3>4. Answered(t)'
      BY <1>0, <2>3, <3>3 DEF Answered, Clean
    <3> QED
      BY <1>0, <1>1, <2>0, <2>1, <2>2, <3>4 DEF PatchStands
  <2>4. CASE /\ th'[t].answer = "panic"
             /\ r.id \in DOMAIN db[r.table] => th'[t].failed = TRUE
    <3>1. th'[t].failed = TRUE \/ Removed(t)'
      BY <1>1, <2>1, <2>4 DEF Stands
    <3> QED
      BY <2>0, <2>4, <3>1 DEF PatchStands, Answered
  <2> QED
    BY <1>6, <2>3, <2>4 DEF Rereads, Turns
<1> QED
  BY <1>3, <1>4, <1>5, <1>6 DEF StepOf

-----------------------------------------------------------------------------
(* A request comes.                                                        *)
LEMMA ArriveKeeps ==
    ASSUME MRInv, NEW t \in Threads, NEW q \in Requests, Arrive(t, q)
    PROVE  /\ MATypeOK' /\ RequestsKnown' /\ RolelessExplained' /\ PatchesStick'
           /\ RoleReadIsCurrent' /\ NewRolesAreNew' /\ PatchesStand'
<1>0. /\ phase = Serving /\ th[t].pc = "idle" /\ db' = db /\ phase' = phase
      /\ crashes' = crashes /\ Recalls({}, {}) /\ ThreadShape
      /\ q.op \in {"create_user", "create_role"} /\ q.fresh => Fresh(q.id)
      /\ th' = [th EXCEPT ![t].pc = FirstStatement[q.op], ![t].req = q,
                          ![t].answer = IF q.op = "invalid"
                                        THEN "invalid_request" ELSE @]
  BY DEF Arrive, At, Succeeds, Remember, Recalls, MRInv, MAInv
<1>1. th[t].req = NoRequest /\ th[t].answer = "none" /\ th[t].next \in Nat \ {0}
  BY <1>0 DEF MRInv, RequestsKnown, RequestKnown
<1>2. /\ \A o \in Threads \ {t} : th'[o] = th[o]
      /\ th'[t].req = q /\ th'[t].pc = FirstStatement[q.op]
      /\ th'[t].next \in Nat \ {0}
      /\ th'[t].answer = IF q.op = "invalid" THEN "invalid_request" ELSE "none"
  <2> DEFINE a == IF q.op = "invalid" THEN "invalid_request" ELSE "none"
             pc == FirstStatement[q.op]
  <2>1. th' = [th EXCEPT ![t].pc = pc, ![t].req = q, ![t].answer = a]
    BY <1>0, <1>1
  <2> HIDE DEF a, pc
  <2>2. \A o \in Threads \ {t} : th'[o] = th[o]
    BY <1>0, <2>1 DEF ThreadShape
  <2>3. th[t] = [f \in ThreadFields |-> th[t][f]] /\ t \in DOMAIN th
    BY <1>0 DEF ThreadShape
  <2>4. th'[t] = [[[th[t] EXCEPT !.pc = pc] EXCEPT !.req = q] EXCEPT !.answer = a]
    BY <2>1, <2>3
  <2>5. /\ th'[t].req = q /\ th'[t].pc = pc
        /\ th'[t].next = th[t].next /\ th'[t].answer = a
    BY <2>3, <2>4 DEF ThreadFields
  <2> QED
    BY <1>1, <2>2, <2>5 DEF a, pc
<1>3. q.op \in {"patch", "create_user", "create_role", "assign", "remove",
                "delete_user", "block", "unblock", "delete_role", "invalid"}
  BY ManagementAssumption
<1>4. /\ FirstStatement[q.op] \in PcsOf[q.op] \cup {"done"}
      /\ FirstStatement[q.op] \notin {"idle", "update", "reselect", "insert_pair"}
      /\ FirstStatement[q.op] = "done" <=> q.op = "invalid"
      /\ FirstStatement[q.op] = "insert_role" <=> q.op = "create_role"
  BY <1>3 DEF FirstStatement, PcsOf
<1>5. MATypeOK'
  <2>1. \A o \in Threads : th'[o].req \in Requests \cup {NoRequest}
    BY <1>2 DEF MRInv, MATypeOK
  <2>2. Serving' = Serving
    BY DEF Serving
  <2>3. TablesTyped(db') /\ RelationsTyped(db')
    BY <1>0 DEF MRInv, MATypeOK, TablesTyped, RowTyped, RelationsTyped
  <2>4. phase' \in 1..Serving' /\ crashes' \in 0..MaxCrashes
    BY <1>0, <2>2 DEF MRInv, MATypeOK
  <2> QED
    BY <2>1, <2>3, <2>4 DEF MATypeOK, TablesTyped, RowTyped, RelationsTyped
<1>6. RequestsKnown'
  <2>1. ASSUME NEW o \in Threads \ {t} PROVE RequestKnown(o)'
    BY <1>2 DEF MRInv, RequestsKnown, RequestKnown
  <2>2. RequestKnown(t)'
    BY <1>2, <1>4 DEF RequestKnown
  <2> QED
    BY <2>1, <2>2 DEF RequestsKnown
<1>7. RolelessExplained'
  <2> SUFFICES ASSUME NEW u \in UserIDs, Roleless(u)' PROVE AboutToGetRole(u)'
    BY DEF RolelessExplained
  <2>1. Roleless(u)
    BY <1>0 DEF Roleless, Recalls, Bare, UserPairs
  <2>2. PICK o \in Threads : th[o].pc = "insert_pair" /\ th[o].req.id = u
    BY <1>0, <2>1 DEF MRInv, RolelessExplained, AboutToGetRole
  <2>3. th'[o] = th[o] /\ phase' = Serving'
    BY <1>0, <1>2, <2>2 DEF Serving
  <2> QED
    BY <2>2, <2>3 DEF AboutToGetRole
<1>8. PatchesStick'
  BY <1>0 DEF Recalls, Asked, Overlapped, MRInv, PatchesStick, Tables
<1>9. RoleReadIsCurrent'
  <2> SUFFICES ASSUME NEW o \in Threads, th'[o].pc = "update",
                      th'[o].req.table = "roles", NEW id, id = th'[o].req.id
               PROVE  /\ th'[o].row \in Row.roles
                      /\ id \in DOMAIN db'.roles /\ id \notin overlapped'
                           => th'[o].row = db'.roles[id]
    BY DEF RoleReadIsCurrent
  <2>1. th'[o] = th[o]
    BY <1>2, <1>4
  <2>2. id \in DOMAIN db.roles /\ id \notin overlapped' => id \notin overlapped
    BY <1>0 DEF Recalls, Overlapped
  <2>3. /\ th[o].row \in Row.roles
        /\ id \in DOMAIN db.roles /\ id \notin overlapped => th[o].row = db.roles[id]
    BY <2>1 DEF MRInv, RoleReadIsCurrent
  <2> QED
    BY <1>0, <2>1, <2>2, <2>3
<1>10. NewRolesAreNew'
  <2>1. ASSUME q.op = "create_role"
        PROVE  /\ q.id \notin DOMAIN db.roles
               /\ \A o \in Threads \ {t} : th[o].pc \in {"insert_role", "update"}
                                             => th[o].req.id # q.id
    <3>1. Fresh(q.id)
      BY <1>0, <2>1, ManagementAssumption
    <3>2. ASSUME NEW o \in Threads, th[o].pc \in {"insert_role", "update"}
          PROVE  th[o].req # NoRequest /\ th[o].req.op # "invalid"
      <4>1. th[o].req \in Requests
        BY <3>2 DEF MRInv, RequestsKnown, RequestKnown
      <4>2. th[o].req.op \in {"create_role", "patch"}
        BY <3>2, Asking DEF MRInv
      <4> QED
        BY <4>1, <4>2, ManagementAssumption
    <3> QED
      BY <3>1, <3>2 DEF Fresh
  <2>2. ASSUME NEW n \in Threads, th'[n].pc = "insert_role"
        PROVE  /\ th'[n].req.id \notin DOMAIN db'.roles
               /\ \A o \in Threads \ {n} :
                    /\ th'[o].pc = "insert_role" => th'[o].req.id # th'[n].req.id
                    /\ ~(/\ th'[o].pc = "update" /\ th'[o].req.table = "roles"
                         /\ th'[o].req.id = th'[n].req.id)
    <3>1. CASE n = t
      <4>1. q.op = "create_role" /\ th'[n].req.id = q.id
        BY <1>2, <1>4, <2>2, <3>1
      <4> QED
        BY <1>0, <1>2, <2>1, <3>1, <4>1
    <3>2. CASE n # t
      <4>1. /\ th'[n] = th[n] /\ th[n].req.id \notin DOMAIN db.roles
            /\ \A o \in Threads \ {n} :
                 /\ th[o].pc = "insert_role" => th[o].req.id # th[n].req.id
                 /\ ~Patching(o, "roles", th[n].req.id)
        BY <1>2, <2>2, <3>2 DEF MRInv, NewRolesAreNew
      <4>2. /\ th'[t].pc # "update"
            /\ th'[t].pc = "insert_role" => th'[t].req.id # th[n].req.id
        <5>1. th[n].pc = "insert_role" /\ n \in Threads \ {t}
          BY <2>2, <3>2, <4>1
        <5>2. th'[t].pc = "insert_role" => q.op = "create_role" /\ th'[t].req.id = q.id
          BY <1>2, <1>4
        <5>3. q.op = "create_role" => th[n].req.id # q.id
          BY <2>1, <5>1
        <5>4. th'[t].pc # "update"
          BY <1>2, <1>4
        <5> QED
          BY <5>2, <5>3, <5>4
      <4>3. db' = db /\ \A o \in Threads \ {t} : th'[o] = th[o]
        BY <1>0, <1>2
      <4>4. ASSUME NEW o \in Threads \ {n}
            PROVE  /\ th'[o].pc = "insert_role" => th'[o].req.id # th'[n].req.id
                   /\ ~(/\ th'[o].pc = "update" /\ th'[o].req.table = "roles"
                        /\ th'[o].req.id = th'[n].req.id)
        <5>1. CASE o = t
          BY <4>1, <4>2, <5>1
        <5>2. CASE o # t
          BY <4>1, <4>3, <5>2 DEF Patching
        <5> QED
          BY <5>1, <5>2
      <4> QED
        BY <4>1, <4>3, <4>4
    <3> QED
      BY <3>1, <3>2
  <2> QED
    BY <2>2 DEF NewRolesAreNew, Patching
<1>11. PatchesStand'
  <2>1. (PatchStands(t) /\ Answered(t))'
    BY <1>2, <1>4 DEF PatchStands, Answered
  <2>2. ASSUME NEW o \in Threads \ {t} PROVE (PatchStands(o) /\ Answered(o))'
    <3>1. /\ th'[o] = th[o]
          /\ \A p \in Threads : th[p].req # NoRequest => th'[p].req = th[p].req
      BY <1>1, <1>2
    <3>2. (Removed(o) => Removed(o)') /\ \A c : Rival(o, c) => Rival(o, c)'
      BY <3>1, ExcusesStay
    <3>3. (Present(o) => Present(o)') /\ (Stands(o) => Stands(o)')
      BY <1>0, <3>1, <3>2 DEF Present, Stands
    <3>4. PatchStands(o) /\ Answered(o)
      BY DEF MRInv, PatchesStand
    <3> QED
      BY <3>1, <3>2, <3>3, <3>4 DEF PatchStands, Answered
  <2> QED
    BY <2>1, <2>2 DEF PatchesStand
<1> QED
  BY <1>5, <1>6, <1>7, <1>8, <1>9, <1>10, <1>11

-----------------------------------------------------------------------------
(* The start and the end of the process: no request runs after the step,   *)
(* and the rows that were there stay as they were.                         *)
RowsKept ==
    \A table \in Tables : \A id \in DOMAIN db[table] :
        id \in DOMAIN db'[table] /\ db'[table][id] = db[table][id]
NobodyGoesOn ==
    \A t \in Threads :
        /\ th'[t].req = th[t].req
        /\ \/ th'[t] = th[t] /\ th[t].pc \in {"idle", "done"}
           \/ /\ th[t].pc # "idle" /\ th'[t].pc = "done" /\ th'[t].answer = "lost"
              /\ th'[t].next = th[t].next

LEMMA NobodyGoesOnKeeps ==
    ASSUME MRInv, RowsKept, NobodyGoesOn, NEW left, Recalls(left, {})
    PROVE  /\ RequestsKnown' /\ PatchesStick'
           /\ RoleReadIsCurrent' /\ NewRolesAreNew' /\ PatchesStand'
<1>1. \A t \in Threads : th'[t].pc \in {"idle", "done"}
  BY DEF NobodyGoesOn
<1>2. RoleReadIsCurrent' /\ NewRolesAreNew'
  BY <1>1 DEF RoleReadIsCurrent, NewRolesAreNew
<1>3. RequestsKnown'
  <2>1. ASSUME NEW t \in Threads PROVE RequestKnown(t)'
    BY DEF NobodyGoesOn, MRInv, RequestsKnown, RequestKnown
  <2> QED
    BY <2>1 DEF RequestsKnown
<1>4. PatchesStick'
  <2> SUFFICES ASSUME NEW table \in Tables, NEW id \in DOMAIN db'[table]
               PROVE  \/ db'[table][id] = asked'[table][id]
                      \/ table = "roles" /\ id \in overlapped'
    BY DEF PatchesStick
  <2>1. asked'[table][id] = IF id \notin DOMAIN db[table] THEN db'[table][id]
                            ELSE asked[table][id]
    BY DEF Recalls, Asked
  <2>2. table = "roles" /\ id \in overlapped => id \in overlapped'
    BY DEF Recalls, Overlapped
  <2> QED
    BY <2>1, <2>2 DEF MRInv, PatchesStick, RowsKept
<1>5. ASSUME NEW t \in Threads PROVE (PatchStands(t) /\ Answered(t))'
  <2>1. CASE th'[t] = th[t] /\ th[t].pc \in {"idle", "done"}
    <3>1. (Removed(t) => Removed(t)') /\ \A c : Rival(t, c) => Rival(t, c)'
      BY ExcusesStay DEF NobodyGoesOn
    <3>2. th[t].answer = "ok" /\ Stands(t) => Stands(t)'
      <4> SUFFICES ASSUME th[t].answer = "ok", Stands(t) PROVE Stands(t)'
        OBVIOUS
      <4>1. th[t].req.table \in Tables
        BY PatchTyped
      <4> QED
        BY <2>1, <3>1, <4>1 DEF Stands, RowsKept
    <3>3. PatchStands(t) /\ Answered(t)
      BY DEF MRInv, PatchesStand
    <3> QED
      BY <2>1, <3>1, <3>2, <3>3 DEF PatchStands, Answered
  <2>2. CASE th'[t].pc = "done" /\ th'[t].answer = "lost"
    BY <2>2 DEF PatchStands, Answered
  <2> QED
    BY <2>1, <2>2 DEF NobodyGoesOn
<1> QED
  BY <1>2, <1>3, <1>4, <1>5 DEF PatchesStand

(* INSERT OR IGNORE of a statement of the start.                           *)
LEMMA InsertOrIgnoreKeeps ==
    ASSUME MRInv, NEW s, StatementTyped(s), db' = InsertOrIgnore(db, s)
    PROVE  /\ TablesTyped(db') /\ RelationsTyped(db') /\ RowsKept
           /\ \A u \in DOMAIN db'.users \ DOMAIN db.users : s.table = "users" /\ s.id = u
           /\ s.table = "userRoles" => UserPairs(db', s.id) # {}
<1>0. /\ Shape(db) /\ TablesTyped(db) /\ RelationsTyped(db) /\ DOMAIN db = Fields
  BY DEF MRInv, MAInv, MATypeOK, TablesTyped, RowTyped, RelationsTyped, Shape
<1>1. ASSUME db' = db PROVE TablesTyped(db') /\ RelationsTyped(db') /\ RowsKept
  BY <1>0, <1>1 DEF RowsKept
<1>2. CASE s.table = "none"
  <2>1. db' = db
    BY <1>0, <1>2 DEF InsertOrIgnore, Fields, Tables
  <2> QED
    BY <1>1, <1>2, <2>1
<1>3. CASE s.table \in {"userRoles", "rolePerms"}
  <2>1. /\ db' = [db EXCEPT ![s.table] = @ \cup {s.row}]
        /\ s.table \in Fields \ Tables
    BY <1>0, <1>3 DEF InsertOrIgnore, Fields, Tables
  <2>2. TablesKept
    BY <1>0, <2>1 DEF TablesKept, Shape, Fields
  <2>3. RelationsTyped(db')
    <3>1. \A f \in Fields : db'[f] = IF f = s.table THEN db[f] \cup {s.row} ELSE db[f]
      BY <1>0, <2>1 DEF Shape
    <3>2. /\ db'.userRoles = IF s.table = "userRoles" THEN db.userRoles \cup {s.row}
                             ELSE db.userRoles
          /\ db'.rolePerms = IF s.table = "rolePerms" THEN db.rolePerms \cup {s.row}
                             ELSE db.rolePerms
          /\ db'.blocks = db.blocks
      BY <1>3, <3>1 DEF Fields
    <3>3. /\ s.table = "userRoles" => s.row \in UserIDs \X RoleIDs
          /\ s.table = "rolePerms" => s.row \in RoleIDs \X PermIDs
      BY DEF StatementTyped
    <3> QED
      BY <1>0, <3>2, <3>3 DEF RelationsTyped
  <2>4. ASSUME s.table = "userRoles" PROVE UserPairs(db', s.id) # {}
    <3>1. s.row \in db'.userRoles /\ s.row[1] = s.id
      BY <1>0, <2>1, <2>4 DEF Shape, Fields, StatementTyped
    <3> QED
      BY <3>1 DEF UserPairs
  <2> QED
    BY <1>0, <1>3, <2>2, <2>3, <2>4, KeptTyped DEF RowsKept, TablesKept, Tables
<1>4. CASE s.table \in Tables
  <2>0. s.table # "userRoles" /\ s.id \in IDs[s.table] /\ s.row \in Row[s.table]
    BY <1>4 DEF StatementTyped, Tables
  <2>1. CASE ~Insertable(db, s.table, s.id, s.row)
    <3>1. db' = db
      BY <1>4, <2>1 DEF InsertOrIgnore
    <3> QED
      BY <1>1, <2>0, <3>1
  <2>2. CASE Insertable(db, s.table, s.id, s.row)
    <3>1. db' = Insert(db, s.table, s.id, s.row)
      BY <1>0, <1>4, <2>2 DEF InsertOrIgnore, Fields
    <3>2. Becomes(s.table, Put(db[s.table], s.id, s.row))
      BY <1>0, <1>4, <3>1, RowsTouch
    <3>3. TablesTyped(db') /\ RelationsTyped(db')
      BY <1>0, <1>4, <2>0, <2>2, <3>2, PutTyped DEF Insertable
    <3>4. \A table \in Tables : db'[table] = IF table = s.table
                                             THEN Put(db[table], s.id, s.row)
                                             ELSE db[table]
      BY <3>2 DEF Becomes, Fields
    <3>5. s.id \notin DOMAIN db[s.table]
      BY <2>2 DEF Insertable
    <3>6. RowsKept
      BY <3>4, <3>5 DEF RowsKept, Put
    <3>7. \A u \in DOMAIN db'.users \ DOMAIN db.users : s.table = "users" /\ s.id = u
      BY <3>4 DEF Put, Tables
    <3> QED
      BY <2>0, <3>3, <3>6, <3>7
  <2> QED
    BY <2>1, <2>2
<1> QED
  BY <1>2, <1>3, <1>4 DEF StatementTyped, Tables

LEMMA StartKeeps ==
    ASSUME MRInv, StartStatement \/ SeedFails \/ Crash
    PROVE  /\ MATypeOK' /\ RequestsKnown' /\ RolelessExplained' /\ PatchesStick'
           /\ RoleReadIsCurrent' /\ NewRolesAreNew' /\ PatchesStand'
<1> DEFINE s == Statements[phase]
<1>0. /\ TablesTyped(db) /\ RelationsTyped(db) /\ ThreadShape
      /\ phase \in 1..Serving /\ crashes \in 0..MaxCrashes /\ Serving' = Serving
      /\ Serving = Len(Statements) + 1 /\ Len(Statements) \in Nat
      /\ \A t \in Threads : th[t].req \in Requests \cup {NoRequest}
      /\ RolelessExplained /\ RequestsInPlace /\ RequestsKnown
  BY StatementsTyped DEF MRInv, MAInv, MATypeOK, TablesTyped, RowTyped,
     RelationsTyped, Serving
<1>1. ASSUME phase # Serving
      PROVE  /\ phase \in 1..Len(Statements) /\ StatementTyped(s)
             /\ s.table = "users" => /\ phase + 1 \in 1..Len(Statements)
                                     /\ Statements[phase + 1].table = "userRoles"
                                     /\ Statements[phase + 1].id = s.id
             /\ phase + 1 \in 1..Serving
  <2>1. phase \in 1..Len(Statements) /\ phase + 1 \in 1..Serving
    BY <1>0, <1>1
  <2> QED
    BY <2>1, StatementsTyped
<1>2. ASSUME TablesTyped(db'), RelationsTyped(db'), phase' \in 1..Serving,
             crashes' \in 0..MaxCrashes, NobodyGoesOn
      PROVE  MATypeOK'
  <2>1. \A t \in Threads : th'[t].req = th[t].req
    BY <1>2 DEF NobodyGoesOn
  <2> QED
    BY <1>0, <1>2, <2>1 DEF MATypeOK, TablesTyped, RowTyped, RelationsTyped
<1>3. CASE StartStatement
  <2>0. /\ phase # Serving /\ db' = InsertOrIgnore(db, s) /\ phase' = phase + 1
        /\ crashes' = crashes /\ th' = th /\ Recalls({}, {})
    BY <1>3 DEF StartStatement, Remember, Recalls
  <2>1. NobodyGoesOn
    BY <1>0, <2>0 DEF NobodyGoesOn, RequestsInPlace
  <2>2. /\ TablesTyped(db') /\ RelationsTyped(db') /\ RowsKept
        /\ \A u \in DOMAIN db'.users \ DOMAIN db.users : s.table = "users" /\ s.id = u
        /\ s.table = "userRoles" => UserPairs(db', s.id) # {}
    BY <1>1, <2>0, InsertOrIgnoreKeeps
  <2>3. MATypeOK'
    BY <1>0, <1>1, <1>2, <2>0, <2>1, <2>2
  <2>4. RolelessExplained'
    <3> SUFFICES ASSUME NEW u \in UserIDs, Roleless(u)' PROVE AboutToGetRole(u)'
      BY DEF RolelessExplained
    <3>1. /\ u \in DOMAIN db'.users /\ UserPairs(db', u) = {}
          /\ UserPairs(db, u) = {} /\ u \notin bare
      BY <2>0 DEF Roleless, Recalls, Bare
    <3>2. u \notin DOMAIN db.users
      <4>1. SUFFICES ASSUME u \in DOMAIN db.users PROVE FALSE
        OBVIOUS
      <4>2. s.table = "userRoles" /\ s.id = u
        BY <1>0, <2>0, <3>1, <4>1 DEF RolelessExplained, Roleless, AboutToGetRole
      <4> QED
        BY <2>2, <3>1, <4>2
    <3>3. s.table = "users" /\ s.id = u
      BY <2>2, <3>1, <3>2
    <3>4. /\ phase + 1 \in 1..Len(Statements)
          /\ Statements[phase + 1].table = "userRoles" /\ Statements[phase + 1].id = u
      BY <1>1, <2>0, <3>3
    <3>5. phase' # Serving' /\ Statements[phase'] = Statements[phase + 1]
      BY <1>0, <2>0, <3>4
    <3>6. Statements' = Statements
      BY DEF Statements
    <3> QED
      BY <3>4, <3>5 DEF AboutToGetRole
  <2> QED
    BY <2>0, <2>1, <2>2, <2>3, <2>4, NobodyGoesOnKeeps
<1>4. CASE SeedFails
  <2>0. /\ phase # Serving /\ db' = db
        /\ phase' = IF s.table = "users" THEN Serving ELSE phase + 1
        /\ crashes' = crashes /\ th' = th /\ Recalls({s.id}, {})
    BY <1>4 DEF SeedFails, Remember, Recalls
  <2>1. NobodyGoesOn /\ RowsKept
    BY <1>0, <2>0 DEF NobodyGoesOn, RequestsInPlace, RowsKept
  <2>2. phase' \in 1..Serving
    BY <1>0, <1>1, <2>0
  <2>3. MATypeOK'
    BY <1>0, <1>2, <2>0, <2>1, <2>2
  <2>4. RolelessExplained'
    <3> SUFFICES ASSUME NEW u \in UserIDs, Roleless(u)' PROVE FALSE
      BY DEF RolelessExplained
    <3>1. Roleless(u) /\ u # s.id
      BY <2>0 DEF Roleless, Recalls, Bare, UserPairs
    <3> QED
      BY <1>0, <2>0, <3>1 DEF RolelessExplained, AboutToGetRole
  <2> QED
    BY <2>0, <2>1, <2>3, <2>4, NobodyGoesOnKeeps
<1>5. CASE Crash
  <2>0. /\ db' = db /\ phase' = 1 /\ crashes < MaxCrashes /\ crashes' = crashes + 1
        /\ th' = [t \in Threads |-> IF th[t].pc \in {"idle", "done"} THEN th[t]
                                    ELSE [th[t] EXCEPT !.pc = "done", !.answer = "lost"]]
        /\ Recalls(UserIDs, {})
    BY <1>5 DEF Crash, Remember, Recalls
  <2>1. NobodyGoesOn
    BY <1>0, <2>0 DEF NobodyGoesOn, ThreadShape, ThreadFields
  <2>2. RowsKept
    BY <2>0 DEF RowsKept
  <2>3. phase' \in 1..Serving /\ crashes' \in 0..MaxCrashes
    <3>1. /\ MaxCrashes \in Nat /\ crashes \in 0..MaxCrashes
          /\ crashes' = crashes + 1 /\ crashes < MaxCrashes
      BY <1>0, <2>0, ManagementAssumption
    <3>2. phase' = 1 /\ Serving = Len(Statements) + 1 /\ Len(Statements) \in Nat
      BY <1>0, <2>0
    <3>3. crashes' \in 0..MaxCrashes
      BY <3>1
    <3>4. phase' \in 1..Serving
      BY <3>2
    <3> QED
      BY <3>3, <3>4
  <2>4. MATypeOK'
    BY <1>0, <1>2, <2>0, <2>1, <2>3
  <2>5. RolelessExplained'
    BY <2>0 DEF RolelessExplained, Roleless, Recalls, Bare
  <2> QED
    BY <2>0, <2>1, <2>2, <2>4, <2>5, NobodyGoesOnKeeps
<1> QED
  BY <1>3, <1>4, <1>5

-----------------------------------------------------------------------------
(* MRInv is an inductive invariant.                                        *)
LEMMA MRInvInit == MAInit => MRInv
<1> SUFFICES ASSUME MAInit PROVE MRInv
  OBVIOUS
<1>1. MAInv
  BY MAInvInit
<1>2. /\ \A table \in Tables : db[table] = << >>
      /\ db.userRoles = {} /\ db.rolePerms = {} /\ db.blocks = {}
  BY DEF MAInit, Empty, Tables
<1>3. \A t \in Threads : /\ th[t].pc = "idle" /\ th[t].req = NoRequest
                         /\ th[t].answer = "none" /\ th[t].next = 1
  BY DEF MAInit, NewThread
<1>4. \A table \in Tables : DOMAIN db[table] = {}
  BY <1>2
<1>5. phase \in 1..Serving /\ crashes \in 0..MaxCrashes
  BY StatementsTyped, ManagementAssumption DEF MAInit, Serving
<1>6. MATypeOK
  BY <1>2, <1>3, <1>4, <1>5 DEF MATypeOK
<1>7. RequestsKnown
  BY <1>3 DEF RequestsKnown, RequestKnown
<1>8. RolelessExplained /\ PatchesStick
  BY <1>4 DEF RolelessExplained, Roleless, PatchesStick, Tables
<1>9. RoleReadIsCurrent /\ NewRolesAreNew /\ PatchesStand
  BY <1>3 DEF RoleReadIsCurrent, NewRolesAreNew, PatchesStand, PatchStands, Answered
<1> QED
  BY <1>1, <1>6, <1>7, <1>8, <1>9 DEF MRInv

LEMMA MRInvStep == MRInv /\ [MANext]_maVars => MRInv'
<1> SUFFICES ASSUME MRInv, [MANext]_maVars PROVE MRInv'
  OBVIOUS
<1>0. MAInv'
  BY MAInvStep DEF MRInv
<1>1. CASE UNCHANGED maVars
  <2>1. MATypeOK'
    BY <1>1 DEF maVars, MRInv, MATypeOK, Unique, Serving
  <2>2. RequestsKnown' /\ PatchesStick' /\ RoleReadIsCurrent' /\ NewRolesAreNew'
    BY <1>1 DEF maVars, MRInv, RequestsKnown, RequestKnown, PatchesStick,
       RoleReadIsCurrent, NewRolesAreNew, Patching
  <2>3. RolelessExplained'
    BY <1>1 DEF maVars, MRInv, RolelessExplained, Roleless, AboutToGetRole,
       UserPairs, Serving
  <2>4. PatchesStand'
    BY <1>1 DEF maVars, MRInv, PatchesStand, PatchStands, Answered, Present,
       Stands, Rival, Removed, UserDeletedFor
  <2> QED
    BY <1>0, <2>1, <2>2, <2>3, <2>4 DEF MRInv
<1>2. ASSUME NEW t \in Threads, NEW q \in Requests, Arrive(t, q) PROVE MRInv'
  BY <1>0, <1>2, ArriveKeeps DEF MRInv
<1>3. ASSUME NEW t \in Threads, Step(t) PROVE MRInv'
  <2>1. StepOf(t)
    BY <1>3, StepKinds
  <2>2. PatchesStand'
    BY <2>1, OthersStand, OwnStands DEF PatchesStand
  <2> QED
    BY <1>0, <2>1, <2>2, TypesStep, KnownStep, StickStep, RoleReadStep,
       NewRolesStep, RolelessStep DEF MRInv
<1>4. CASE StartStatement \/ SeedFails \/ Crash
  BY <1>0, <1>4, StartKeeps DEF MRInv
<1> QED
  BY <1>1, <1>2, <1>3, <1>4 DEF MANext, Operate

-----------------------------------------------------------------------------
(* The tables of internal/store/sqlite.go keep their primary keys and      *)
(* UNIQUE columns, and hold rows of their columns' types, whatever         *)
(* requests, failures and restarts come.                                   *)
THEOREM TablesStayTyped == MASpec => []MATypeOK
<1>1. MRInv => MATypeOK
  BY DEF MRInv
<1> QED
  BY <1>1, MRInvInit, MRInvStep, PTL DEF MASpec

(* CreateUser and SeedFromConfigFile write a user and then the user's      *)
(* role: a user without any role lost them to a request, or is one that    *)
(* an error or a crash cut short between the two statements.               *)
THEOREM RolelessWereCut == MASpec => []RolelessOnlyIfCut
<1>1. MRInv => RolelessOnlyIfCut
  <2> SUFFICES ASSUME MRInv, phase = Serving, NEW u \in DOMAIN db.users,
                      UserPairs(db, u) = {}, u \notin bare
               PROVE  \E t \in Threads : th[t].pc = "insert_pair" /\ th[t].req.id = u
    BY DEF RolelessOnlyIfCut
  <2>1. u \in UserIDs
    BY DEF MRInv, MATypeOK, Tables, IDs
  <2> QED
    BY <2>1 DEF MRInv, RolelessExplained, Roleless, AboutToGetRole
<1> QED
  BY <1>1, MRInvInit, MRInvStep, PTL DEF MASpec

(* However the PATCHes of any number of requests interleave, no column of  *)
(* a user or a client has a value other than the one last asked for, and   *)
(* none of a role whose PATCHes did not overlap (UpdateUser, UpdateClient, *)
(* UpdateRole).                                                            *)
THEOREM PatchesAreKept == MASpec => []PatchesStick
<1>1. MRInv => PatchesStick
  BY DEF MRInv
<1> QED
  BY <1>1, MRInvInit, MRInvStep, PTL DEF MASpec

(* A PATCH handler's answer is what it wrote unless somebody else came in  *)
(* between, and its nil pointer (the row read back is missing) needs an    *)
(* error or a DELETE of the user.                                          *)
THEOREM PatchAnswersTruly == MASpec => []PatchAnswersItsWrite
<1>1. MRInv => PatchAnswersItsWrite
  <2> SUFFICES ASSUME MRInv, NEW t \in Threads
               PROVE  LET s == th[t] IN
                      /\ s.answer = "ok" => \A c \in DOMAIN s.req.set :
                           \/ s.row[c] = s.req.set[c]
                           \/ c = "callbacks" /\ ~Clean(s.req.set[c])
                           \/ Rival(t, c)
                           \/ s.req.table = "users" /\ UserDeletedFor(t)
                      /\ s.answer = "panic" =>
                           s.failed \/ (s.req.table = "users" /\ UserDeletedFor(t))
    BY DEF PatchAnswersItsWrite, Rival
  <2>1. Answered(t)
    BY DEF MRInv, PatchesStand
  <2> QED
    BY <2>1 DEF Answered, Removed
<1> QED
  BY <1>1, MRInvInit, MRInvStep, PTL DEF MASpec

-----------------------------------------------------------------------------
(* Induction up to a bound, for sets: the least number that is not in S    *)
(* would make i -> i - 1 map the numbers below that are not in S, one to   *)
(* one, into fewer.                                                        *)
LEMMA Induction ==
    ASSUME NEW n \in Nat, NEW S, 0 \in S,
           \A i \in 0..n : i \in S /\ i < n => i + 1 \in S
    PROVE  0..n \subseteq S
<1> SUFFICES ASSUME NEW k \in 0..n, k \notin S PROVE FALSE
  OBVIOUS
<1> DEFINE T == {i \in 0..k : i \notin S}
           f == [i \in T |-> i - 1]
<1>1. /\ IsFiniteSet(T) /\ IsFiniteSet(T \ {k})
      /\ Cardinality(T \ {k}) < Cardinality(T)
  <2>1. IsFiniteSet(0..k)
    BY FS_Interval
  <2>2. IsFiniteSet(T) /\ k \in T
    BY <2>1, FS_Subset
  <2>3. Cardinality(T) \in Nat
    BY <2>2, FS_CardinalityType
  <2> HIDE DEF T
  <2>4. IsFiniteSet(T \ {k}) /\ Cardinality(T \ {k}) = Cardinality(T) - 1
    BY <2>2, FS_RemoveElement, Zenon
  <2> QED
    BY <2>2, <2>3, <2>4
<1>2. ASSUME NEW i \in T PROVE i - 1 \in T \ {k}
  <2>1. i \in 0..k /\ i # 0 /\ i \notin S
    OBVIOUS
  <2>2. /\ i - 1 \in 0..n /\ i - 1 < n /\ (i - 1) + 1 = i
        /\ i - 1 \in 0..k /\ i - 1 # k
    BY <2>1
  <2>3. i - 1 \notin S
    BY <2>1, <2>2
  <2> QED
    BY <2>2, <2>3
<1>3. f \in [T -> T \ {k}]
  BY <1>2
<1>4. PICK x \in T, y \in T : x # y /\ f[x] = f[y]
  <2> HIDE DEF T, f
  <2> QED
    BY <1>1, <1>3, FS_PigeonHole
<1> QED
  BY <1>4

(* f is the sequence of databases of a whole start (up to statement n).    *)
Seeding(f, d, n) ==
    f = [i \in 0..n |-> IF i = 0 THEN d ELSE InsertOrIgnore(f[i - 1], Statements[i])]

LEMMA SeedingExists ==
    ASSUME NEW d, NEW n \in Nat
    PROVE  \E f : Seeding(f, d, n)
<1> DEFINE S == {k \in 0..n : \E f : Seeding(f, d, k)}
<1>1. 0 \in S
  <2>1. Seeding([i \in 0..0 |-> d], d, 0)
    BY DEF Seeding
  <2> QED
    BY <2>1
<1>2. ASSUME NEW k \in 0..n, k \in S, k < n PROVE k + 1 \in S
  <2>1. PICK f : Seeding(f, d, k)
    BY <1>2
  <2> DEFINE g == [i \in 0..k + 1 |-> IF i = k + 1
                                      THEN InsertOrIgnore(f[k], Statements[k + 1])
                                      ELSE f[i]]
  <2>2. \A i \in 0..k :
          f[i] = IF i = 0 THEN d ELSE InsertOrIgnore(f[i - 1], Statements[i])
    BY <2>1, Zenon DEF Seeding
  <2>3. \A i \in 0..k + 1 :
          g[i] = IF i = 0 THEN d ELSE InsertOrIgnore(g[i - 1], Statements[i])
    BY <2>2
  <2>4. Seeding(g, d, k + 1)
    BY <2>3 DEF Seeding
  <2>5. k + 1 \in 0..n
    BY <1>2
  <2> HIDE DEF g
  <2> QED
    BY <2>4, <2>5
<1>3. n \in S
  <2> HIDE DEF S
  <2> QED
    BY <1>1, <1>2, Induction
<1> QED
  BY <1>3

(* Started is what the statements make one after the other.                *)
LEMMA StartedSeeds ==
    ASSUME NEW d
    PROVE  \E f : /\ f[0] = d /\ Started(d) = f[Len(Statements)]
                  /\ \A i \in 1..Len(Statements) :
                       f[i] = InsertOrIgnore(f[i - 1], Statements[i])
<1> DEFINE n == Len(Statements)
           after[i \in 0..n] ==
             IF i = 0 THEN d ELSE InsertOrIgnore(after[i - 1], Statements[i])
<1>0. n \in Nat
  BY StatementsTyped
<1>1. \E f : Seeding(f, d, n)
  BY <1>0, SeedingExists
<1>2. Seeding(after, d, n)
  BY <1>1, Zenon DEF Seeding
<1>3. Started(d) = after[n]
  BY Zenon DEF Started
<1> HIDE DEF after
<1>4. \A i \in 0..n :
        after[i] = IF i = 0 THEN d ELSE InsertOrIgnore(after[i - 1], Statements[i])
  BY <1>2, Zenon DEF Seeding
<1> HIDE DEF n
<1>5. after[0] = d
  BY <1>0, <1>4
<1>6. \A i \in 1..n : after[i] = InsertOrIgnore(after[i - 1], Statements[i])
  BY <1>0, <1>4
<1> QED
  BY <1>3, <1>5, <1>6, Zenon DEF n

-----------------------------------------------------------------------------
(* INSERT OR IGNORE a second time does nothing, whatever was inserted in   *)
(* between.                                                                *)
Settled(d, s) == InsertOrIgnore(d, s) = d

LEMMA Inserted ==
    ASSUME NEW d, Shape(d), NEW s
    PROVE  LET e == InsertOrIgnore(d, s)
           IN  /\ Shape(e)
               /\ \A f \in Fields : f # s.table => e[f] = d[f]
               /\ s.table \in Fields \ Tables => e[s.table] = d[s.table] \cup {s.row}
               /\ s.table \in Tables =>
                    e[s.table] = IF Insertable(d, s.table, s.id, s.row)
                                 THEN Put(d[s.table], s.id, s.row) ELSE d[s.table]
<1> DEFINE e == InsertOrIgnore(d, s)
<1>0. DOMAIN d = Fields /\ Tables \subseteq Fields
  BY DEF Shape, Fields
<1>1. CASE s.table \notin Fields
  <2>1. e = d /\ s.table \notin Tables
    BY <1>0, <1>1 DEF InsertOrIgnore
  <2> QED
    BY <1>1, <2>1
<1>2. CASE s.table \in Fields \ Tables
  <2>1. e = [d EXCEPT ![s.table] = @ \cup {s.row}]
    BY <1>0, <1>2 DEF InsertOrIgnore
  <2> QED
    BY <1>2, <2>1 DEF Shape
<1>3. CASE s.table \in Tables
  <2>1. e = IF Insertable(d, s.table, s.id, s.row)
            THEN [d EXCEPT ![s.table] = Put(@, s.id, s.row)] ELSE d
    BY <1>0, <1>3 DEF InsertOrIgnore, Insert
  <2> QED
    BY <1>0, <1>3, <2>1 DEF Shape
<1> QED
  BY <1>1, <1>2, <1>3

(* Which statements have nothing left to do.                               *)
LEMMA SettledMeans ==
    ASSUME NEW d, Shape(d), NEW s
    PROVE  Settled(d, s) <=>
             \/ s.table \notin Fields
             \/ s.table \in Fields \ Tables /\ s.row \in d[s.table]
             \/ s.table \in Tables /\ ~Insertable(d, s.table, s.id, s.row)
<1> DEFINE e == InsertOrIgnore(d, s)
<1>0. /\ Shape(e) /\ \A f \in Fields : f # s.table => e[f] = d[f]
      /\ s.table \in Fields \ Tables => e[s.table] = d[s.table] \cup {s.row}
      /\ s.table \in Tables =>
           e[s.table] = IF Insertable(d, s.table, s.id, s.row)
                        THEN Put(d[s.table], s.id, s.row) ELSE d[s.table]
  BY Inserted
<1>1. e = d <=> \A f \in Fields : e[f] = d[f]
  <2> HIDE DEF e
  <2> QED
    BY <1>0 DEF Shape
<1>2. Tables \subseteq Fields
  BY DEF Fields
<1>3. ASSUME s.table \in Tables, Insertable(d, s.table, s.id, s.row)
      PROVE  Put(d[s.table], s.id, s.row) # d[s.table]
  <2>1. DOMAIN Put(d[s.table], s.id, s.row) = DOMAIN d[s.table] \cup {s.id}
    BY DEF Put
  <2>2. s.id \notin DOMAIN d[s.table]
    BY <1>3 DEF Insertable
  <2> QED
    BY <2>1, <2>2
<1> HIDE DEF e
<1>4. Settled(d, s) <=> e = d
  BY DEF Settled, e
<1> QED
  BY <1>0, <1>1, <1>2, <1>3, <1>4

LEMMA SettledStays ==
    ASSUME NEW d, Shape(d), NEW s, Settled(d, s), NEW t
    PROVE  Settled(InsertOrIgnore(d, t), s)
<1> DEFINE e == InsertOrIgnore(d, t)
<1>0. /\ Shape(e) /\ \A f \in Fields : f # t.table => e[f] = d[f]
      /\ t.table \in Fields \ Tables => e[t.table] = d[t.table] \cup {t.row}
      /\ t.table \in Tables =>
           e[t.table] = IF Insertable(d, t.table, t.id, t.row)
                        THEN Put(d[t.table], t.id, t.row) ELSE d[t.table]
  BY Inserted
<1> HIDE DEF e
<1>1. Tables \subseteq Fields
  BY DEF Fields
<1>2. CASE s.table \in Tables
  <2>0. ~Insertable(d, s.table, s.id, s.row)
    BY <1>1, <1>2, SettledMeans
  <2>1. ASSUME NEW o \in DOMAIN d[s.table]
        PROVE  o \in DOMAIN e[s.table] /\ e[s.table][o] = d[s.table][o]
    <3>1. CASE t.table = s.table /\ Insertable(d, t.table, t.id, t.row)
      <4>1. e[s.table] = Put(d[s.table], t.id, t.row) /\ o # t.id
        BY <1>0, <1>2, <2>1, <3>1 DEF Insertable
      <4> QED
        BY <2>1, <4>1 DEF Put
    <3>2. CASE ~(t.table = s.table /\ Insertable(d, t.table, t.id, t.row))
      BY <1>0, <1>1, <1>2, <2>1, <3>2
    <3> QED
      BY <3>1, <3>2
  <2>2. ~Insertable(e, s.table, s.id, s.row)
    BY <2>0, <2>1 DEF Insertable, Unique
  <2> QED
    BY <1>0, <1>2, <2>2, SettledMeans DEF e
<1>3. CASE s.table \in Fields \ Tables
  <2>1. s.row \in d[s.table]
    BY <1>3, SettledMeans
  <2>2. s.row \in e[s.table]
    BY <1>0, <1>3, <2>1
  <2> QED
    BY <1>0, <1>3, <2>2, SettledMeans DEF e
<1>4. CASE s.table \notin Fields
  BY <1>0, <1>4, SettledMeans DEF e
<1> QED
  BY <1>2, <1>3, <1>4

LEMMA InsertSettles ==
    ASSUME NEW d, Shape(d), NEW s
    PROVE  Settled(InsertOrIgnore(d, s), s)
<1> DEFINE e == InsertOrIgnore(d, s)
<1>0. /\ Shape(e) /\ \A f \in Fields : f # s.table => e[f] = d[f]
      /\ s.table \in Fields \ Tables => e[s.table] = d[s.table] \cup {s.row}
      /\ s.table \in Tables =>
           e[s.table] = IF Insertable(d, s.table, s.id, s.row)
                        THEN Put(d[s.table], s.id, s.row) ELSE d[s.table]
  BY Inserted
<1>1. ASSUME s.table \in Tables PROVE ~Insertable(e, s.table, s.id, s.row)
  <2>1. CASE Insertable(d, s.table, s.id, s.row)
    <3>1. e[s.table] = Put(d[s.table], s.id, s.row)
      BY <1>0, <1>1, <2>1
    <3> HIDE DEF e
    <3> QED
      BY <3>1 DEF Put, Insertable
  <2>2. CASE ~Insertable(d, s.table, s.id, s.row)
    BY <1>1, <2>2, SettledMeans DEF Settled
  <2> QED
    BY <2>1, <2>2
<1> QED
  BY <1>0, <1>1, SettledMeans

-----------------------------------------------------------------------------
(* The strengthening of SeedConverges: the statements before the next one  *)
(* have nothing left to do, so that a crash, after which they are run      *)
(* again, does not change what the rest leads to.                          *)
LeadsToTarget(f) ==
    /\ f[phase] = db /\ f[Serving] = target
    /\ \A i \in phase..Len(Statements) : f[i + 1] = InsertOrIgnore(f[i], Statements[i])

SeedsSettle ==
    /\ phase = Serving => target = Empty
    /\ target # Empty =>
         /\ \A i \in 1..(phase - 1) : Settled(db, Statements[i])
         /\ \E f : LeadsToTarget(f)

LEMMA SomeStatements == Len(Statements) \in Nat \ {0}
<1>1. /\ MigrationSeeds \in Seq(MigrationStatements) /\ FileSeeds \in Seq(FileStatements)
  BY MigrationTyped, FileTyped
<1>2. Len(MigrationSeeds) # 0
  <2>1. BuiltinApps \in Seq([id : AppIDs, row : Row.clients])
    BY StoreAssumption
  <2> QED
    BY <2>1 DEF MigrationSeeds
<1> QED
  BY <1>1, <1>2 DEF Statements

(* A start from the first statement leads to what Started says.            *)
LEMMA StartLeads ==
    ASSUME NEW d
    PROVE  \E f : /\ f[1] = d /\ f[Serving] = Started(d)
                  /\ \A i \in 1..Len(Statements) :
                       f[i + 1] = InsertOrIgnore(f[i], Statements[i])
<1> DEFINE n == Len(Statements)
<1>0. n \in Nat
  BY StatementsTyped
<1>1. PICK f : /\ f[0] = d /\ Started(d) = f[n]
               /\ \A i \in 1..n : f[i] = InsertOrIgnore(f[i - 1], Statements[i])
  BY StartedSeeds
<1> DEFINE g == [i \in 1..n + 1 |-> f[i - 1]]
<1> HIDE DEF n
<1>2. /\ g[1] = d /\ g[n + 1] = Started(d)
      /\ \A i \in 1..n : g[i] = f[i - 1] /\ g[i + 1] = f[i]
  BY <1>0, <1>1
<1> HIDE DEF g
<1>3. \A i \in 1..n : g[i + 1] = InsertOrIgnore(g[i], Statements[i])
  BY <1>1, <1>2
<1>4. Serving = n + 1
  BY DEF Serving, n
<1> QED
  BY <1>2, <1>3, <1>4, Zenon DEF n

LEMMA SeedsSettleStep ==
    ASSUME MRInv, SeedsSettle, [MANext]_maVars
    PROVE  SeedsSettle'
<1> DEFINE n == Len(Statements)
<1>0. n \in Nat \ {0} /\ Serving = n + 1 /\ phase \in 1..n + 1
  BY SomeStatements DEF MRInv, MATypeOK, Serving
<1> HIDE DEF n
<1>1. Shape(db)
  BY DEF MRInv, MAInv
<1>2. CASE UNCHANGED maVars
  BY <1>2 DEF maVars, SeedsSettle, LeadsToTarget
<1>3. ASSUME phase = Serving, phase' = phase, target' = target PROVE SeedsSettle'
  BY <1>3 DEF SeedsSettle
<1>4. ASSUME NEW t \in Threads, NEW r \in Requests, Arrive(t, r) PROVE SeedsSettle'
  BY <1>3, <1>4 DEF Arrive, At, Succeeds
<1>5. ASSUME NEW t \in Threads, Step(t) PROVE SeedsSettle'
  <2>1. phase = Serving /\ phase' = phase /\ target' = target
    BY <1>5 DEF Step, SelectRow, UpdateRow, ReselectRow, InsertUser, InsertUserRole,
       DeleteUserRoles, DeleteUserBlocks, DeleteUserRow, ModifyRoles, ModifyBlocks,
       CreateRole, DeleteRolePermissions, DeleteRoleMembers, DeleteRoleRow,
       At, Succeeds, Fails
  <2> QED
    BY <1>3, <2>1
<1>6. CASE StartStatement
  <2> SUFFICES ASSUME target' # Empty PROVE SeedsSettle'
    BY DEF SeedsSettle
  <2>1. /\ phase \in 1..n /\ phase' = phase + 1 /\ phase' # Serving
        /\ target' = target /\ db' = InsertOrIgnore(db, Statements[phase])
    BY <1>0, <1>6 DEF StartStatement
  <2>2. PICK f : LeadsToTarget(f)
    BY <2>1 DEF SeedsSettle
  <2>3. LeadsToTarget(f)'
    <3>1. f[phase + 1] = db'
      BY <1>0, <2>1, <2>2 DEF LeadsToTarget, n
    <3>2. \A i \in (phase + 1)..n : i \in phase..n
      BY <2>1
    <3> QED
      BY <2>1, <2>2, <3>1, <3>2 DEF LeadsToTarget, n
  <2>4. ASSUME NEW i \in 1..(phase' - 1) PROVE Settled(db', Statements[i])
    <3>1. CASE i = phase
      BY <1>1, <2>1, <3>1, InsertSettles
    <3>2. CASE i # phase
      <4>1. i \in 1..(phase - 1)
        BY <2>1, <3>2
      <4>2. Settled(db, Statements[i])
        BY <2>1, <4>1 DEF SeedsSettle
      <4> QED
        BY <1>1, <2>1, <4>2, SettledStays
    <3> QED
      BY <3>1, <3>2
  <2>5. (phase' = Serving) = FALSE
    BY <2>1
  <2> QED
    BY <2>3, <2>4, <2>5 DEF SeedsSettle
<1>7. CASE SeedFails
  BY <1>7 DEF SeedFails, SeedsSettle
<1>8. CASE Crash
  <2>0. /\ phase' = 1 /\ db' = db
        /\ target' = IF target = Empty THEN Started(db) ELSE target
    BY <1>8, Zenon DEF Crash
  <2>1. phase' = 1 /\ phase' # Serving /\ db' = db
    BY <1>0, <2>0
  <2>2. CASE target = Empty
    <3>1. PICK f : /\ f[1] = db /\ f[Serving] = Started(db)
                   /\ \A i \in 1..Len(Statements) :
                        f[i + 1] = InsertOrIgnore(f[i], Statements[i])
      BY StartLeads
    <3>2. LeadsToTarget(f)'
      BY <2>0, <2>1, <2>2, <3>1 DEF LeadsToTarget
    <3> QED
      BY <2>1, <3>2 DEF SeedsSettle
  <2>3. CASE target # Empty
    <3>1. PICK f : LeadsToTarget(f)
      BY <2>3 DEF SeedsSettle
    <3> DEFINE g == [i \in 1..n + 1 |-> IF i <= phase THEN db ELSE f[i]]
    <3>2. g[1] = db /\ g[n + 1] = target
      BY <1>0, <3>1 DEF LeadsToTarget
    <3>3. ASSUME NEW i \in 1..n PROVE g[i + 1] = InsertOrIgnore(g[i], Statements[i])
      <4>1. CASE i < phase
        <5>1. g[i] = db /\ g[i + 1] = db /\ i \in 1..(phase - 1)
          BY <1>0, <4>1
        <5> QED
          BY <2>3, <5>1 DEF SeedsSettle, Settled
      <4>2. CASE i >= phase
        <5>1. g[i + 1] = f[i + 1] /\ i \in phase..n
          BY <1>0, <4>2
        <5>2. g[i] = f[i]
          BY <1>0, <3>1, <4>2 DEF LeadsToTarget
        <5> QED
          BY <3>1, <5>1, <5>2 DEF LeadsToTarget, n
      <4> QED
        BY <1>0, <4>1, <4>2
    <3> HIDE DEF g
    <3>4. PICK h : /\ h[1] = db /\ h[n + 1] = target
                   /\ \A i \in 1..n : h[i + 1] = InsertOrIgnore(h[i], Statements[i])
      BY <3>2, <3>3, Zenon
    <3>5. LeadsToTarget(h)'
      BY <1>0, <2>0, <2>1, <2>3, <3>4 DEF LeadsToTarget, n
    <3> QED
      BY <2>1, <3>5 DEF SeedsSettle
  <2> QED
    BY <2>2, <2>3
<1> QED
  BY <1>2, <1>4, <1>5, <1>6, <1>7, <1>8 DEF MANext, Operate

(* SEED_USERS_PATH, "Idempotent (INSERT OR IGNORE)": however often a start *)
(* is cut short by a crash, the one that gets through makes the database   *)
(* that the first would have made, for any seed file and any database it   *)
(* finds.                                                                  *)
THEOREM SeedingConverges == MASpec => SeedConverges
<1>1. MAInit => SeedsSettle
  <2> SUFFICES ASSUME MAInit PROVE SeedsSettle
    OBVIOUS
  <2>1. phase = 1 /\ phase # Serving /\ db = Empty /\ target = Started(Empty)
    BY SomeStatements DEF MAInit, Serving
  <2>2. PICK f : /\ f[1] = Empty /\ f[Serving] = Started(Empty)
                 /\ \A i \in 1..Len(Statements) :
                      f[i + 1] = InsertOrIgnore(f[i], Statements[i])
    BY StartLeads
  <2>3. LeadsToTarget(f)
    BY <2>1, <2>2 DEF LeadsToTarget
  <2> QED
    BY <2>1, <2>3 DEF SeedsSettle
<1>2. ASSUME MRInv, SeedsSettle
      PROVE  StartStatement /\ phase' = Serving => target \in {Empty, db'}
  <2> SUFFICES ASSUME StartStatement, phase' = Serving, target # Empty
               PROVE  target = db'
    OBVIOUS
  <2>1. /\ phase \in 1..Len(Statements) /\ phase + 1 = Serving
        /\ db' = InsertOrIgnore(db, Statements[phase])
    BY <1>2, SomeStatements DEF StartStatement, MRInv, MATypeOK, Serving
  <2>2. PICK f : LeadsToTarget(f)
    BY <1>2 DEF SeedsSettle
  <2>3. phase \in phase..Len(Statements)
    BY <2>1
  <2> QED
    BY <2>1, <2>2, <2>3 DEF LeadsToTarget
<1>3. MRInv /\ SeedsSettle /\ [MANext]_maVars => SeedsSettle'
  BY SeedsSettleStep
<1> QED
  BY <1>1, <1>2, <1>3, MRInvInit, MRInvStep, PTL DEF MASpec, SeedConverges
=============================================================================
