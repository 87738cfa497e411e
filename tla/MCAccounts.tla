------------------------------ MODULE MCAccounts ------------------------------
(* TLC's instance of UserAccess *)
EXTENDS UserAccess, TLC

CONSTANTS admin, bob, ann, Ann, ldap, group, u1, u2, d1, d2, p1, p2, p3, c1, c2

-----------------------------------------------------------------------------
(* Accounts: two administrators who can sign in, one of them of a directory whose rule makes          *)
(* administrators, a disabled factory admin, and a name in other capitals; or the factory admin and   *)
(* a user whose directory was deleted                                                                 *)

MCFolded == [n \in Names |-> IF n = Ann THEN ann ELSE n]
User(kind, active_, server) ==
  [kind |-> kind, role |-> "admin", active |-> active_, approved |-> TRUE, server |-> server]
Directory == (ldap :> [on |-> TRUE, regular |-> TRUE]) @@ (<<ldap, group>> :> [role |-> "admin", on |-> TRUE])
WithDirectory ==
  (admin :> User("local", FALSE, None)) @@ (bob :> User("local", TRUE, None)) @@ (ann :> User("ldap", TRUE, ldap)) @@
  (Ann :> Gone) @@ Directory
Without ==
  (admin :> User("local", TRUE, None)) @@ (ann :> User("ldap", FALSE, None)) @@ (bob :> Gone) @@ (Ann :> Gone) @@ Directory
MCAccountRows == {WithDirectory, Without}

(* Inventory: a device that two users share, each with a profile, a mapping and bindings; or a user's *)
(* profile with the credentials of an import                                                          *)

NoRows == [k \in (({"device"} \X Devices) \cup ({"profile"} \X Profiles) \cup ({"property", "mapping"} \X Owners)
                  \cup ({"link", "value", "binding"} \X Devices \X Owners)) |-> Gone]
Shared ==
  (<<"device", d1>> :> [owner |-> u2, global |-> TRUE, sys |-> "text"]) @@
  (<<"profile", p1>> :> [owner |-> u1, cred |-> c1]) @@ (<<"profile", p2>> :> [owner |-> u2, cred |-> c2]) @@
  (<<"property", u2>> :> [list |-> TRUE]) @@
  (<<"mapping", u2>> :> [on |-> "own", index |-> TRUE]) @@ (<<"mapping", u1>> :> [on |-> "sys", index |-> FALSE]) @@
  (<<"link", d1, u1>> :> [profile |-> p1]) @@ (<<"link", d1, u2>> :> [profile |-> p2]) @@
  (<<"value", d1, u2>> :> [value |-> "list"]) @@
  (<<"binding", d1, u1>> :> [bound |-> TRUE]) @@ (<<"binding", d1, u2>> :> [bound |-> TRUE]) @@ NoRows
Alone == (<<"profile", p2>> :> [owner |-> u2, cred |-> c1]) @@ (<<"property", u2>> :> [list |-> TRUE]) @@ NoRows
MCInventoryRows == {Shared, Alone}

MCDefault == [log |-> 2, job |-> 1, config |-> 1]

Symmetry == Permutations(Requests)
===============================================================================
