-------------------------- MODULE MCManagementApi ---------------------------
(* ManagementApi for TLC.                                                  *)
EXTENDS ManagementApi

MCRoleIDs == {"rol_default", "rol_admin", "rol_new"}
MCRoleNames == {"user", "admin", "staff"}
MCEntries == {"a", "b", "a,b", "none"}
MCPieces == [a |-> <<"a">>, b |-> <<"b">>, none |-> <<"none">>] @@ ("a,b" :> <<"a", "b">>)
MCApps == <<[id |-> "app", row |-> [name |-> "n1", callbacks |-> <<"a">>]]>>

\* u2's seeded email is u1's, and one entry of the file has no email.
MCSeeds ==
    << [id |-> "u1", email |-> "e1", name |-> "n1", role |-> "admin"],
       [id |-> "u2", email |-> "e1", name |-> "n1", role |-> "user"],
       [id |-> "u2", email |-> NoText, name |-> "n1", role |-> "user"] >>

Patch(table, id, set) == [op |-> "patch", table |-> table, id |-> id, set |-> set]
CreateUserRequest(id, email, role, fresh) ==
    [op |-> "create_user", id |-> id, fresh |-> fresh, role |-> role,
     set |-> [email |-> email, name |-> "n1"]]
ById(op, id) == [op |-> op, id |-> id]

MCRequests ==
    { Patch("users", "u1", [name |-> "n2"]),
      Patch("users", "u1", [email |-> "e2"]),
      Patch("users", "u1", << >>),
      Patch("roles", "rol_default", [name |-> "staff"]),
      Patch("roles", "rol_default", [description |-> "d2"]),
      Patch("clients", "app", [callbacks |-> <<"b", "a">>]),
      Patch("clients", "app", [name |-> "n2", callbacks |-> <<"a,b">>]),
      CreateUserRequest("u2", "e2", "user", FALSE),
      CreateUserRequest("u3", "e2", "other", TRUE),
      ById("delete_user", "u1"), ById("delete_user", "u2"),
      ById("block", "u1"), ById("unblock", "u1"),
      [op |-> "assign", id |-> "u1", roles |-> <<"rol_default", "rol_admin">>],
      [op |-> "remove", id |-> "u1", roles |-> <<"rol_admin">>],
      [op |-> "create_role", id |-> "rol_new", fresh |-> TRUE,
       set |-> [name |-> "admin", description |-> "d1"]],
      ById("delete_role", "rol_admin"),
      [op |-> "invalid"] }

Symmetry == Permutations(Threads)
=============================================================================
