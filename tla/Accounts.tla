------------------------------ MODULE Accounts ------------------------------
(***************************************************************************)
(* Who may sign in, and who is an administrator: the accounts, the         *)
(* directories and their group rules (src/src/accounts/users.py,           *)
(* accounts/ldap.py, accounts/__main__.py and the pages of                 *)
(* webapp/blueprints/admin_users.py, admin_ldap.py and auth.py).  The      *)
(* database is a function from keys to rows.  A request reads it, decides, *)
(* and writes later, in one transaction: of each row only the columns that *)
(* it changed, so that requests at the same time may overtake each other.  *)
(* A row keeps its id for as long as it is there: one that is deleted and  *)
(* made again under the same name is another row.                          *)
(* What a directory answers is any answer it could give.  Passwords, codes *)
(* and sessions are in SignIn.                                             *)
(***************************************************************************)
EXTENDS Naturals, FiniteSets

CONSTANTS
  Names,        \* usernames
  Folded,       \* username -> the name in lower case, as a directory compares it
  Factory,      \* FACTORY_USERNAME
  Servers,      \* ids of LDAP servers
  Groups,       \* directory groups
  Requests,     \* requests that may be handled at the same time
  Gone,         \* no row
  None,         \* no LDAP server (ldap_server_id is NULL)
  First,        \* the databases that the behaviour may start with
  MaxRequests   \* how many requests come

VARIABLES
  db,      \* key -> row
  tx,      \* request -> what it read, what it will write, and which rows it read are gone; Gone: none is open
  served   \* how many requests came

vars == <<db, tx, served>>

Rules == Servers \X Groups
Keys == Names \cup Servers \cup Rules
Roles == {"operator", "admin"}
UserRows == [kind : {"local", "ldap"}, role : Roles, active : BOOLEAN, approved : BOOLEAN,
             server : Servers \cup {None}]
ServerRows == [on : BOOLEAN, regular : BOOLEAN]
RuleRows == [role : Roles, on : BOOLEAN]

Init == db \in First /\ tx = [r \in Requests |-> Gone] /\ served = 0

-----------------------------------------------------------------------------
(* What the rows say *)

Users(d) == {n \in Names : d[n] # Gone}
UsersOf(d, s) == {n \in Users(d) : d[n].server = s}
IsFactoryAdmin(d, n) == n = Factory /\ d[n].kind = "local"
HasNoDirectory(d, n) == d[n].kind = "ldap" /\ d[n].server = None
ByNameCi(d, n) == {m \in Users(d) : Folded[m] = Folded[n]}

ActiveRules(d, s) == {k \in Rules : k[1] = s /\ d[k] # Gone /\ d[k].on}
SetsRoles(d, s) == s # None /\ d[s].regular /\ ActiveRules(d, s) # {}
DirectorySetsRole(d, n) == d[n].kind = "ldap" /\ SetsRoles(d, d[n].server)

\* highest_role
HighestRole(roles) == IF "admin" \in roles THEN "admin" ELSE "operator"
\* The roles that the active rules of s may give: whoever the directory says is a member of which.
RolesGiven(d, s) == {HighestRole({d[k].role : k \in m}) : m \in SUBSET ActiveRules(d, s)}

\* approved, active, and local or of a directory that is on
CanSignIn(d, n) ==
  /\ d[n].active /\ d[n].approved
  /\ d[n].kind = "local" \/ (d[n].server # None /\ d[d[n].server].on)

AdminsLeft(d, without) == {n \in Users(d) \ without : d[n].role = "admin" /\ CanSignIn(d, n)}

\* check_admins_left passes
AdminsLeftWithout(d, removing) == AdminsLeft(d, removing) # {} \/ AdminsLeft(d, {}) = {}

-----------------------------------------------------------------------------
(* Requests *)

\* A request has read the database and decided: e is what it will write.
Opens(r, op, e) ==
  /\ tx[r] = Gone /\ served < MaxRequests
  /\ tx' = [tx EXCEPT ![r] = [op |-> op, read |-> db, wrote |-> e, lost |-> {}]]
  /\ served' = served + 1 /\ UNCHANGED db

IsAdmin(me) == me \in Users(db) /\ db[me].active /\ db[me].role = "admin"

\* (a plausible bug: any action may be taken on the factory admin)
MayActOnAny(n, action, me) == n # me \/ action \notin {"disable", "delete"}
\* Whom an action skips: the factory admin but for FACTORY_ACTIONS, oneself.
MayActOn(n, action, me) ==
  /\ ~IsFactoryAdmin(db, n) \/ action \in {"enable", "disable"}
  /\ n # me \/ action \notin {"disable", "delete"}

\* (a plausible bug: an account without a directory is given access)
HasAWayInAny(names) == TRUE
\* refuse_without_directory
HasAWayIn(names) == \A n \in names : ~HasNoDirectory(db, n)

\* user_action_factory
Acted(action, u) ==
  CASE action = "approve" -> [u EXCEPT !.approved = TRUE, !.active = TRUE]
    [] action = "enable" -> [u EXCEPT !.active = TRUE]
    [] action = "disable" -> [u EXCEPT !.active = FALSE]
    [] action = "promote" -> [u EXCEPT !.role = "admin", !.approved = TRUE, !.active = TRUE]
    [] action = "demote" -> [u EXCEPT !.role = "operator"]
    [] action = "delete" -> Gone

\* admin_user_action, admin_bulk_action: an admin's action on the users ticked
UserAction(r, me, action, ticked) ==
  LET chosen == {n \in ticked : MayActOn(n, action, me)}
  IN  /\ IsAdmin(me) /\ chosen # {}
      /\ action \in {"promote", "demote"} => \A n \in chosen : ~DirectorySetsRole(db, n)
      /\ action \in {"approve", "enable", "promote"} => HasAWayIn(chosen)
      /\ action \in {"disable", "demote", "delete"} => AdminsLeftWithout(db, chosen)
      /\ Opens(r, action, [k \in Keys |-> IF k \in chosen THEN Acted(action, db[k]) ELSE db[k]])

\* (a plausible bug: only the very same capitals are taken)
FreeExactly(n) == n \notin Users(db)
\* new_local, new_ldap, the import: the name is no account's, in any case
Free(n) == ByNameCi(db, n) = {}

\* register (waits for an approval), admin_add_user
NewLocal(r, n, role, approved) ==
  /\ Free(n)
  /\ approved => \E me \in Users(db) : IsAdmin(me)
  /\ ~approved => role = "operator"
  /\ Opens(r, "new", [db EXCEPT ![n] = [kind |-> "local", role |-> role, active |-> approved,
                                          approved |-> approved, server |-> None]])

NewLdap(n, s, role) == [kind |-> "ldap", role |-> role, active |-> TRUE, approved |-> TRUE, server |-> s]

\* login_ldap_group: the active directory took the password, and a rule matches.
FirstSignIn(r, n, s) ==
  /\ Free(n) /\ db[s] # Gone /\ db[s].on /\ db[s].regular
  /\ \E m \in (SUBSET ActiveRules(db, s)) \ {{}} :
       Opens(r, "first sign-in", [db EXCEPT ![n] = NewLdap(n, s, HighestRole({db[k].role : k \in m}))])

\* (a plausible bug: a sign-in demotes the last administrator)
RoleAtSignInAny(n, role) == role
\* set_directory_role: the rules' role, but never a demotion of the last administrator
RoleAtSignIn(n, role) ==
  IF db[n].role = "admin" /\ role = "operator" /\ ~AdminsLeftWithout(db, {n}) THEN "admin" ELSE role

\* login_ldap_existing, as far as the account is concerned: the password was right
LdapSignIn(r, n) ==
  /\ db[n].kind = "ldap" /\ db[n].approved /\ db[n].active
  /\ DirectorySetsRole(db, n) /\ db[db[n].server].on
  /\ \E role \in RolesGiven(db, db[n].server) :
       Opens(r, "sign-in", [db EXCEPT ![n].role = RoleAtSignIn(n, role)])

\* admin_server_ldap_import of a user
Import(r, n, s) ==
  /\ Free(n) /\ db[s] # Gone /\ \E me \in Users(db) : IsAdmin(me)
  /\ \E role \in IF SetsRoles(db, s) THEN RolesGiven(db, s) ELSE {"operator"} :
       Opens(r, "import", [db EXCEPT ![n] = NewLdap(n, s, role)])

\* reconnect, then set_roles (admin_users_reconnect, and the import with reconnect)
Reconnect(r, names, s) ==
  /\ names # {} /\ \A n \in names : HasNoDirectory(db, n)
  /\ db[s] # Gone /\ db[s].on /\ db[s].regular /\ \E me \in Users(db) : IsAdmin(me)
  /\ \E role \in [names -> RolesGiven(db, s)] :
       Opens(r, "reconnect",
             [k \in Keys |-> IF k \in names
                THEN [db[k] EXCEPT !.server = s, !.active = FALSE,
                                   !.role = IF SetsRoles(db, s) THEN role[k] ELSE @]
                ELSE db[k]])

\* (a plausible bug: the users of a deleted directory stay as they are)
KeptUserAny(u) == [u EXCEPT !.server = None]
\* A user who is kept when the directory is deleted: disabled (the foreign key: no directory).
KeptUser(u) == [u EXCEPT !.server = None, !.active = FALSE]

\* admin_server_ldap_delete, delete_directory
DeleteServer(r, me, s, deleteUsers) ==
  /\ IsAdmin(me) /\ db[s] # Gone /\ me \notin UsersOf(db, s)
  /\ AdminsLeftWithout(db, UsersOf(db, s))
  /\ Opens(r, "delete directory",
           [k \in Keys |-> IF k = s \/ (k \in Rules /\ k[1] = s) THEN Gone
                            ELSE IF k \in UsersOf(db, s) THEN (IF deleteUsers THEN Gone ELSE KeptUser(db[k]))
                            ELSE db[k]])

\* A new server's id is new to everyone.
NewId(s) == \A r \in Requests : tx[r] # Gone => tx[r].read[s] = Gone /\ tx[r].wrote[s] = Gone

\* admin_server_ldap_new, admin_server_ldap_save: nobody asks who could sign in afterwards.
SaveServer(r, s, on, regular) ==
  /\ db[s] # Gone \/ NewId(s)
  /\ \E me \in Users(db) : IsAdmin(me)
  /\ Opens(r, "save directory", [db EXCEPT ![s] = [on |-> on, regular |-> regular]])

\* A group's rule after an admin's request: imported; switched, its role changed, deleted.
RuleAfter(row) ==
  IF row = Gone THEN {[role |-> "operator", on |-> TRUE]}
  ELSE {Gone, [row EXCEPT !.on = ~@]} \cup {[row EXCEPT !.role = role] : role \in Roles}

SaveRule(r, k) ==
  /\ db[k[1]] # Gone /\ \E me \in Users(db) : IsAdmin(me)
  /\ \E row \in RuleAfter(db[k]) : Opens(r, "rule", [db EXCEPT ![k] = row])

\* password_failed for the DISABLE_AFTER-th time
WrongPasswords(r, n) ==
  /\ db[n].kind = "local" /\ ~IsFactoryAdmin(db, n) /\ db[n].approved /\ db[n].active
  /\ Opens(r, "wrong passwords", [db EXCEPT ![n].active = FALSE])

\* reset_factory_admin, by hand on the server
ResetAdmin(r) ==
  /\ db[Factory] # Gone /\ IsFactoryAdmin(db, Factory)
  /\ Opens(r, "reset", [db EXCEPT ![Factory] = [@ EXCEPT !.active = TRUE, !.approved = TRUE, !.role = "admin"]])

-----------------------------------------------------------------------------
(* The commit *)

\* The rows after the commit: of a row that is still there only the changed columns.
Merged(t) ==
  [k \in Keys |->
     IF t.wrote[k] = t.read[k] \/ k \in t.lost THEN db[k]
     ELSE IF Gone \in {t.wrote[k], t.read[k]} THEN t.wrote[k]
     ELSE [f \in DOMAIN db[k] |-> IF t.wrote[k][f] # t.read[k][f] THEN t.wrote[k][f] ELSE db[k][f]]]

\* What the foreign keys do when a server's row has gone: no directory; no rule.
Cascaded(d) ==
  [k \in Keys |-> IF k \in Users(d) /\ d[k].server # None /\ d[d[k].server] = Gone THEN [d[k] EXCEPT !.server = None]
                   ELSE IF k \in Rules /\ d[k[1]] = Gone THEN Gone ELSE d[k]]

\* The database refuses: a changed row is gone, a name was taken, or the server that is linked to is gone.
Refuses(t) ==
  \E k \in Keys :
    /\ t.wrote[k] # t.read[k] /\ t.wrote[k] # Gone
    /\ \/ k \in t.lost
       \/ t.read[k] = Gone /\ db[k] # Gone /\ k \in Names
       \/ k \in Names /\ t.wrote[k].server # None /\ db[t.wrote[k].server] = Gone
                      /\ (t.read[k] = Gone \/ t.read[k].server # t.wrote[k].server)
       \/ k \in Rules /\ db[k[1]] = Gone

\* The rows of t's that a commit deletes.
LostOf(t) == {k \in Keys : t.read[k] # Gone /\ db[k] # Gone /\ db'[k] = Gone}

Commits(r) ==
  /\ tx[r] # Gone
  /\ db' = IF Refuses(tx[r]) THEN db ELSE Cascaded(Merged(tx[r]))
  /\ tx' = [q \in Requests |-> IF q = r \/ tx[q] = Gone THEN Gone ELSE [tx[q] EXCEPT !.lost = @ \cup LostOf(tx[q])]]
  /\ UNCHANGED served

Next ==
  \E r \in Requests :
    \/ Commits(r) \/ ResetAdmin(r)
    \/ \E me \in Users(db) :
         \/ \E ticked \in SUBSET Users(db), a \in {"approve", "enable", "disable", "promote", "demote", "delete"} :
              UserAction(r, me, a, ticked)
         \/ \E s \in Servers, deleteUsers \in BOOLEAN : DeleteServer(r, me, s, deleteUsers)
    \/ \E n \in Users(db) : LdapSignIn(r, n) \/ WrongPasswords(r, n)
    \/ \E n \in Names : \E role \in Roles, approved \in BOOLEAN : NewLocal(r, n, role, approved)
    \/ \E n \in Names, s \in Servers : FirstSignIn(r, n, s) \/ Import(r, n, s)
    \/ \E names \in SUBSET Users(db), s \in Servers : Reconnect(r, names, s)
    \/ \E s \in Servers, on \in BOOLEAN, regular \in BOOLEAN : SaveServer(r, s, on, regular)
    \/ \E k \in Rules : SaveRule(r, k)

Spec == Init /\ [][Next]_vars

-----------------------------------------------------------------------------
(* Properties: of states, and of steps (those with primes) *)

\* Every row has its columns; a local account has no directory.
TypeOK ==
  /\ \A n \in Users(db) : db[n] \in UserRows /\ (db[n].kind = "local" => db[n].server = None)
  /\ \A s \in Servers : db[s] \in ServerRows \cup {Gone}
  /\ \A k \in Rules : db[k] \in RuleRows \cup {Gone}
  /\ served \in 0..MaxRequests

\* The break-glass account is always there for netrollout reset-admin: whatever is done to the others, and
\* at the same time, the factory admin stays a local account with the admin role (FACTORY_ACTIONS).
FactoryStays == Factory \in Users(db) /\ db[Factory].kind = "local" /\ db[Factory].role = "admin"

\* The step commits a request, and nothing was committed since that one read the database.
CommitsAlone == \E r \in Requests : tx[r] # Gone /\ tx'[r] = Gone /\ tx[r].read = db /\ tx[r].lost = {}
Committed == CHOOSE t \in {tx[r] : r \in Requests} : t # Gone /\ \E r \in Requests : t = tx[r] /\ tx'[r] = Gone

\* A request that runs alone never takes the last administrator who can sign in away (check_admins_left, at
\* every action, the deletion of a directory and the role of a sign-in) - but for the two that don't ask:
\* a directory that is switched off, and an admin account that wrong passwords disable.
LastAdminStays ==
  CommitsAlone /\ AdminsLeft(db, {}) # {} /\ AdminsLeft(db', {}) = {}
     => Committed.op \in {"save directory", "wrong passwords"}

\* A request that runs alone never leaves an active account that has no directory to sign in with: a deleted
\* directory's users are disabled, and can be enabled only once they are connected again.
WayInFirst ==
  CommitsAlone => \A n \in Users(db') :
      HasNoDirectory(db', n) /\ db'[n].active => n \in Users(db) /\ HasNoDirectory(db, n) /\ db[n].active

\* A request that runs alone never makes a second account of a name in other capitals.
OnePerName ==
  CommitsAlone => \A n \in Users(db') : Cardinality(ByNameCi(db', n)) > 1 => Cardinality(ByNameCi(db, n)) > 1

\* What check_admins_left promises of requests at the same time too: none of the requests that ask it takes
\* the last administrator who can sign in away.
NeverNoAdmin ==
  AdminsLeft(db, {}) # {} /\ AdminsLeft(db', {}) = {}
     => Committed.op \in {"save directory", "wrong passwords"}

(***************************************************************************)
(* Why they hold.  What a transaction has read of a row still holds of the *)
(* columns that no request changes, as long as the row is there: so a      *)
(* merged row is one that the table may hold.  And what a request that     *)
(* runs alone comes to is settled when it opens.                           *)
(***************************************************************************)
Ops == {"approve", "enable", "disable", "promote", "demote", "delete", "new", "first sign-in", "sign-in", "import",
        "reconnect", "delete directory", "save directory", "rule", "wrong passwords", "reset"}

\* A user's row: of a directory that is there, and a local account has none.
UserFits(d, n) ==
  d[n] \in UserRows /\ (d[n].kind = "local" => d[n].server = None) /\ (d[n].server # None => d[d[n].server] # Gone)
\* The databases with the tables' columns and foreign keys, and the factory admin.
Databases ==
  {d \in [Keys -> UserRows \cup ServerRows \cup RuleRows \cup {Gone}] :
     /\ \A n \in Names : d[n] # Gone => UserFits(d, n)
     /\ \A s \in Servers : d[s] # Gone => d[s] \in ServerRows
     /\ \A k \in Rules : d[k] # Gone => d[k] \in RuleRows /\ d[k[1]] # Gone
     /\ d[Factory] # Gone /\ d[Factory].kind = "local" /\ d[Factory].role = "admin"}
Transactions == [op : Ops, read : Databases, wrote : Databases, lost : SUBSET Keys]

\* No request makes another kind of account of one.
KindsStay(t) == \A n \in Names : t.read[n] # Gone /\ t.wrote[n] # Gone => t.wrote[n].kind = t.read[n].kind

\* What it comes to when nothing else is committed.
WhenAlone(t) ==
  /\ AdminsLeft(t.read, {}) # {} /\ AdminsLeft(t.wrote, {}) = {} => t.op \in {"save directory", "wrong passwords"}
  /\ \A n \in Users(t.wrote) : HasNoDirectory(t.wrote, n) /\ t.wrote[n].active =>
       n \in Users(t.read) /\ HasNoDirectory(t.read, n) /\ t.read[n].active
  /\ \A n \in Users(t.wrote) : \/ ByNameCi(t.wrote, n) = {n}
                               \/ ByNameCi(t.wrote, n) \subseteq ByNameCi(t.read, n)

\* A row that it has read is there, and of the kind it was, or lost.
Remembers(t, d) ==
  \A k \in Keys \ t.lost : t.read[k] # Gone =>
    d[k] # Gone /\ (k \in Names => d[k].kind = t.read[k].kind)

AccountInv ==
  /\ db \in Databases /\ served \in 0..MaxRequests
  /\ tx \in [Requests -> Transactions \cup {Gone}]
  /\ \A r \in Requests : tx[r] # Gone => KindsStay(tx[r]) /\ WhenAlone(tx[r]) /\ Remembers(tx[r], db)
=============================================================================
