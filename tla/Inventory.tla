------------------------------ MODULE Inventory ------------------------------
(***************************************************************************)
(* The devices, and what each user keeps on them: a link to a security     *)
(* profile, custom values, bindings to variable mappings (src/src/         *)
(* inventory.py, db/tables.py and the pages of webapp/blueprints/          *)
(* inventory.py, mappings.py and security.py).  A global device is shared; *)
(* what the users keep on it is each one's own.  As in Accounts a request  *)
(* reads, decides and writes later, in one transaction, of each row the    *)
(* columns that it changed.  Addresses, labels and secrets are left out: a *)
(* device has one system value, and each user one mapping and one custom   *)
(* property.  Rows of deleted users are Accounts' and the schema's.        *)
(***************************************************************************)
EXTENDS Naturals, FiniteSets

CONSTANTS
  Users,        \* signed-in users
  Admins,       \* those of them who are administrators
  Devices,      \* ids of devices
  Profiles,     \* ids of security profiles
  Credentials,  \* username, password and enable secret, as one
  Requests,     \* requests that may be handled at the same time
  Gone,         \* no row, no value
  First,        \* the databases that the behaviour may start with
  MaxRequests   \* how many requests come

VARIABLES
  db,      \* key -> row
  tx,      \* request -> what it read and what it will write; Gone: none is open
  served   \* how many requests came

vars == <<db, tx, served>>

Device(x) == <<"device", x>>
Profile(p) == <<"profile", p>>
Mapping(u) == <<"mapping", u>>
Property(u) == <<"property", u>>
Link(x, u) == <<"link", x, u>>
Value(x, u) == <<"value", x, u>>
Binding(x, u) == <<"binding", x, u>>

Keys == {Device(x) : x \in Devices} \cup {Profile(p) : p \in Profiles}
        \cup {Mapping(u) : u \in Users} \cup {Property(u) : u \in Users}
        \cup {Link(x, u) : x \in Devices, u \in Users} \cup {Value(x, u) : x \in Devices, u \in Users}
        \cup {Binding(x, u) : x \in Devices, u \in Users}
AttrValues == {"text", "list"}
DeviceRows == [owner : Users, global : BOOLEAN, sys : {"text", Gone}]
ProfileRows == [owner : Users, cred : Credentials]
MappingRows == [on : {"sys", "own"}, index : BOOLEAN]
LinkRows == [profile : Profiles]
ValueRows == [value : AttrValues]
PropertyRows == [list : BOOLEAN]
Bound == [bound |-> TRUE]

\* The keys that a row refers to with a foreign key.
Refers(k, row) ==
  CASE k[1] = "link" -> {Device(k[2]), Profile(row.profile)}
    [] k[1] = "value" -> {Device(k[2])}
    [] k[1] = "binding" -> {Device(k[2]), Mapping(k[3])}
    [] OTHER -> {}

Init == db \in First /\ tx = [r \in Requests |-> Gone] /\ served = 0

-----------------------------------------------------------------------------
(* What a user sees and may do *)

\* visible_devices_clause
Sees(d, u, x) == d[Device(x)] # Gone /\ (d[Device(x)].owner = u \/ d[Device(x)].global)
\* can_edit
CanEdit(d, u, x) == d[Device(x)] # Gone /\ (d[Device(x)].owner = u \/ (d[Device(x)].global /\ u \in Admins))
\* profile_allowed: one of the user's own, or none
ProfileAllowed(u, p) == p # Gone => db[Profile(p)] # Gone /\ db[Profile(p)].owner = u

\* The value that u's mapping reads on x: the device's, or u's own.
MappedValue(d, u, x) ==
  IF d[Mapping(u)].on = "sys" THEN d[Device(x)].sys
  ELSE IF d[Value(x, u)] = Gone THEN Gone ELSE d[Value(x, u)].value
\* mapping_resolvable: the value is set, and a list (that is long enough) for a mapping with an index
Resolvable(d, u, x) ==
  LET v == MappedValue(d, u, x) IN v # Gone /\ (d[Mapping(u)].index => v = "list")

-----------------------------------------------------------------------------
(* What a request writes *)

\* link_profile
LinkProfile(d, u, x, p) == [d EXCEPT ![Link(x, u)] = IF p = Gone THEN Gone ELSE [profile |-> p]]

\* parse_value of a field or a cell with a text, and of a blank one
Parsed(u, filled) == IF filled THEN [value |-> IF db[Property(u)].list THEN "list" ELSE "text"] ELSE Gone
\* set_custom_values: of a property of the user's own; a blank field removes the value
SetCustomValue(d, u, x, filled) ==
  IF db[Property(u)] = Gone THEN d ELSE [d EXCEPT ![Value(x, u)] = Parsed(u, filled)]
\* set_system_values, of a property that everyone has
SystemValue(filled) == IF filled THEN "text" ELSE Gone

\* (a plausible bug: the bindings of everyone are replaced)
ReplacedBindingsAll(u, x) == {Binding(x, w) : w \in Users}
\* The bindings that bind_mappings replaces, in a table that all users share
ReplacedBindings(u, x) == {Binding(x, u)}

\* (a plausible bug: the values that the page showed decide)
EligibleBefore(d, u, x) == db[Device(x)] # Gone /\ d[Mapping(u)] # Gone /\ Resolvable(db, u, x)
\* A mapping can be bound: it is the user's, and resolves with the values as they are now.
Eligible(d, u, x) == d[Mapping(u)] # Gone /\ Resolvable(d, u, x)

\* bind_mappings: the user's bindings on x become the ones ticked that resolve.
BindMappings(d, u, x, ticked) ==
  [k \in Keys |-> IF k = Binding(x, u) /\ ticked /\ Eligible(d, u, x) THEN Bound
                   ELSE IF k \in ReplacedBindings(u, x) THEN Gone ELSE d[k]]

\* (a plausible bug: the device is handed over only after the others' rows went)
DroppedOfOthersFirst(u, x) ==
  {k \in Keys : k[1] \in {"link", "value", "binding"} /\ k[2] = x /\ k[3] # db[Device(x)].owner}
\* drop_other_users of a device that is u's now
DroppedOfOthers(u, x) == {k \in Keys : k[1] \in {"link", "value", "binding"} /\ k[2] = x /\ k[3] # u}

\* The end of save_device: a device made local is the viewer's, and loses the other users' rows.
MadeLocal(d, u, x) ==
  [k \in Keys |-> IF k = Device(x) THEN [d[k] EXCEPT !.owner = u]
                   ELSE IF k \in DroppedOfOthers(u, x) THEN Gone ELSE d[k]]

-----------------------------------------------------------------------------
(* Requests *)

\* u's request has read the database and decided: e is what it will write.
Opens(r, u, op, e) ==
  /\ tx' = [tx EXCEPT ![r] = [by |-> u, op |-> op, read |-> db, wrote |-> e]]
  /\ served' = served + 1 /\ UNCHANGED db

\* A new row's id is new to everyone.
Fresh(k) == db[k] = Gone /\ \A r \in Requests : tx[r] # Gone => tx[r].read[k] = Gone /\ tx[r].wrote[k] = Gone

\* inventory_create: save_device of a new one
Create(r, u, x, global, p) ==
  /\ Fresh(Device(x)) /\ ProfileAllowed(u, p)
  /\ Opens(r, u, "create",
           LinkProfile([db EXCEPT ![Device(x)] = [owner |-> u, global |-> global /\ u \in Admins, sys |-> Gone]],
                       u, x, p))

\* save_device with a form's fields, values and mappings.  Only an admin changes global.
IsGlobal(u, x, global) == IF u \in Admins THEN global ELSE db[Device(x)].global
MakesLocal(u, x, global) == db[Device(x)].global /\ ~IsGlobal(u, x, global)
SaveDevice(u, x, global, p, sys, own, ticked) ==
  LET fields == [db EXCEPT ![Device(x)] = [@ EXCEPT !.global = IsGlobal(u, x, global), !.sys = SystemValue(sys)]]
      saved == BindMappings(SetCustomValue(LinkProfile(fields, u, x, p), u, x, own), u, x, ticked)
  IN  IF MakesLocal(u, x, global) THEN MadeLocal(saved, u, x) ELSE saved

\* inventory_edit
Edit(r, u, x, global, p, sys, own, ticked) ==
  /\ CanEdit(db, u, x) /\ ProfileAllowed(u, p)
  /\ Opens(r, u, IF MakesLocal(u, x, global) THEN "make local" ELSE "edit",
           SaveDevice(u, x, global, p, sys, own, ticked))

\* inventory_attributes: what anyone who sees a device keeps on it
Attributes(r, u, x, p, own, ticked) ==
  /\ Sees(db, u, x) /\ ProfileAllowed(u, p)
  /\ Opens(r, u, "attributes", BindMappings(SetCustomValue(LinkProfile(db, u, x, p), u, x, own), u, x, ticked))

\* inventory_delete
Delete(r, u, x) == CanEdit(db, u, x) /\ Opens(r, u, "delete", [db EXCEPT ![Device(x)] = Gone])

\* inventory_bulk_assign: the devices that u doesn't see are skipped.
BulkLink(r, u, xs, p) ==
  /\ ProfileAllowed(u, p)
  /\ Opens(r, u, "bulk link",
           [k \in Keys |-> IF \E x \in xs : k = Link(x, u) /\ Sees(db, u, x)
                            THEN IF p = Gone THEN Gone ELSE [profile |-> p] ELSE db[k]])

\* (a plausible bug: a profile that the import created is not remembered for its next rows)
SharesNone(rows, of) == \A x, y \in DOMAIN rows : x # y /\ of[x] # Gone => of[x] # of[y]
\* Rows with the same credentials share a profile, and only those (_ProfileResolver._known, _same_credentials).
Shares(rows, of) == \A x, y \in DOMAIN rows : of[x] # Gone => (of[x] = of[y] <=> rows[x] = rows[y])

\* resolve: each row's profile is the user's with exactly its credentials, and a new one only if there is none.
Resolved(u, rows, of) ==
  /\ Shares(rows, of)
  /\ \A x \in DOMAIN rows :
       LET known == {p \in Profiles : db[Profile(p)] = [owner |-> u, cred |-> rows[x]]}
       IN  IF rows[x] = Gone THEN of[x] = Gone
           ELSE of[x] # Gone /\ (IF known # {} THEN of[x] \in known ELSE Fresh(Profile(of[x])))

\* import_csv: new private devices, the values of their cells and, if asked, the profiles of their credentials
Imported(u, rows, of, cells) ==
  [k \in Keys |->
     IF \E x \in DOMAIN rows : k = Device(x) THEN [owner |-> u, global |-> FALSE, sys |-> SystemValue(cells)]
     ELSE IF k[1] = "profile" /\ \E x \in DOMAIN rows : of[x] = k[2]
       THEN [owner |-> u, cred |-> rows[CHOOSE x \in DOMAIN rows : of[x] = k[2]]]
     ELSE IF k[1] = "link" /\ k[3] = u /\ k[2] \in DOMAIN rows /\ of[k[2]] # Gone THEN [profile |-> of[k[2]]]
     ELSE IF k[1] = "value" /\ k[3] = u /\ k[2] \in DOMAIN rows /\ db[Property(u)] # Gone THEN Parsed(u, cells)
     ELSE db[k]]

\* inventory_import_csv, the rows that could be read
Import(r, u, rows, of, cells) ==
  /\ \A x \in DOMAIN rows : Fresh(Device(x))
  /\ Resolved(u, rows, of)
  /\ Opens(r, u, "import", Imported(u, rows, of, cells))

\* SecurityProfiles.create
ProfileCreate(r, u, p, c) ==
  Fresh(Profile(p)) /\ Opens(r, u, "profile", [db EXCEPT ![Profile(p)] = [owner |-> u, cred |-> c]])
Owned(u, p) == db[Profile(p)] # Gone /\ db[Profile(p)].owner = u
\* SecurityProfiles.update; security_delete (the links go with it)
ProfileEdit(r, u, p, c) == Owned(u, p) /\ Opens(r, u, "profile", [db EXCEPT ![Profile(p)].cred = c])
ProfileDelete(r, u, p) == Owned(u, p) /\ Opens(r, u, "profile", [db EXCEPT ![Profile(p)] = Gone])

\* validate_mapping_fields: a property that there is, and an index only into a list
MappingValid(u, row) ==
  IF row.on = "sys" THEN ~row.index ELSE db[Property(u)] # Gone /\ (row.index => db[Property(u)].list)
\* mappings_create, mappings_edit, mappings_delete (its bindings go with it)
MappingSave(r, u, row) == MappingValid(u, row) /\ Opens(r, u, "mapping", [db EXCEPT ![Mapping(u)] = row])
MappingDelete(r, u) == db[Mapping(u)] # Gone /\ Opens(r, u, "mapping", [db EXCEPT ![Mapping(u)] = Gone])

\* mappings_bulk_assign: of the devices to assign those that u sees, that resolve and that were not bound.
MappingAssign(r, u, assign, remove) ==
  /\ db[Mapping(u)] # Gone
  /\ Opens(r, u, "bulk assign",
           [k \in Keys |->
              IF \E x \in assign : k = Binding(x, u) /\ db[k] = Gone /\ Sees(db, u, x) /\ Eligible(db, u, x) THEN Bound
              ELSE IF \E x \in remove : k = Binding(x, u) THEN Gone ELSE db[k]])

\* properties_create; properties_edit (the values stay as they are)
PropertyCreate(r, u, list) ==
  db[Property(u)] = Gone /\ Opens(r, u, "property", [db EXCEPT ![Property(u)] = [list |-> list]])
PropertyEdit(r, u, list) ==
  db[Property(u)] # Gone /\ Opens(r, u, "property", [db EXCEPT ![Property(u)] = [list |-> list]])
\* properties_delete, with the user's values of it on every device
PropertyDelete(r, u) ==
  /\ db[Property(u)] # Gone
  /\ Opens(r, u, "property",
           [k \in Keys |-> IF k = Property(u) \/ (k[1] = "value" /\ k[3] = u) THEN Gone ELSE db[k]])

-----------------------------------------------------------------------------
(* The commit *)

Deletes(t) == {k \in Keys : t.read[k] # Gone /\ t.wrote[k] = Gone}

\* The rows after the commit: of a row that is still there only the changed columns.
Merged(t) ==
  [k \in Keys |->
     IF t.wrote[k] = t.read[k] THEN db[k]
     ELSE IF Gone \in {t.wrote[k], t.read[k], db[k]} THEN t.wrote[k]
     ELSE [f \in DOMAIN db[k] |-> IF t.wrote[k][f] # t.read[k][f] THEN t.wrote[k][f] ELSE db[k][f]]]

\* The rows that refer to what t deletes go with it.
Cascaded(t, d) == [k \in Keys |-> IF d[k] # Gone /\ Refers(k, d[k]) \cap Deletes(t) # {} THEN Gone ELSE d[k]]

\* (a plausible bug: the tables have no foreign keys)
DanglesNever(t, k) == FALSE
\* A foreign key of the row names a row that is gone, and not one that the transaction adds.
Dangles(t, k) == \E j \in Refers(k, t.wrote[k]) : db[j] = Gone /\ ~(t.read[j] = Gone /\ t.wrote[j] # Gone)

\* The database or the session refuses: a changed row is gone, a new one is there already, a foreign key
\* names a row that is gone, or a binding to remove was removed already.
Refuses(t) ==
  \E k \in Keys :
    /\ t.wrote[k] # t.read[k]
    /\ \/ t.read[k] # Gone /\ t.wrote[k] # Gone /\ db[k] = Gone
       \/ t.read[k] = Gone /\ db[k] # Gone
       \/ t.wrote[k] # Gone /\ Dangles(t, k)
       \/ k[1] = "binding" /\ t.wrote[k] = Gone /\ db[k] = Gone

Commits(r) ==
  /\ tx[r] # Gone
  /\ db' = IF Refuses(tx[r]) THEN db ELSE Cascaded(tx[r], Merged(tx[r]))
  /\ tx' = [tx EXCEPT ![r] = Gone]
  /\ UNCHANGED served

\* What user u may ask
Asks(r, u) ==
  \/ \E x \in Devices :
       \/ Delete(r, u, x)
       \/ \E p \in Profiles \cup {Gone} :
            \/ \E global \in BOOLEAN : Create(r, u, x, global, p)
            \/ \E own, ticked \in BOOLEAN :
                 \/ Attributes(r, u, x, p, own, ticked)
                 \/ \E global, sys \in BOOLEAN : Edit(r, u, x, global, p, sys, own, ticked)
  \/ \E xs \in (SUBSET Devices) \ {{}} :
       \/ \E p \in Profiles \cup {Gone} : BulkLink(r, u, xs, p)
       \/ MappingAssign(r, u, xs, {}) \/ MappingAssign(r, u, {}, xs)
       \/ \E rows \in [xs -> Credentials \cup {Gone}], of \in [xs -> Profiles \cup {Gone}], cells \in BOOLEAN :
            Import(r, u, rows, of, cells)
  \/ \E p \in Profiles :
       \/ ProfileDelete(r, u, p)
       \/ \E c \in Credentials : ProfileCreate(r, u, p, c) \/ ProfileEdit(r, u, p, c)
  \/ MappingDelete(r, u) \/ \E row \in MappingRows : MappingSave(r, u, row)
  \/ PropertyDelete(r, u) \/ \E list \in BOOLEAN : PropertyCreate(r, u, list) \/ PropertyEdit(r, u, list)

Next ==
  \E r \in Requests :
    \/ Commits(r)
    \/ tx[r] = Gone /\ served < MaxRequests /\ \E u \in Users : Asks(r, u)

Spec == Init /\ [][Next]_vars

-----------------------------------------------------------------------------
(* Properties: of states, and of steps (those with primes) *)

\* The rows that k's table may hold.
RowsOf(k) ==
  CASE k[1] = "device" -> DeviceRows [] k[1] = "profile" -> ProfileRows [] k[1] = "mapping" -> MappingRows
    [] k[1] = "link" -> LinkRows [] k[1] = "value" -> ValueRows
    [] k[1] = "property" -> PropertyRows [] OTHER -> {Bound}

\* Every row has its table's columns.
TypeOK == (\A k \in Keys : db[k] = Gone \/ db[k] \in RowsOf(k)) /\ served \in 0..MaxRequests

\* A rollout never signs in with someone else's credentials, nor with none that exist: whatever is saved at the
\* same time as a profile or a device is deleted, a user's link names a profile of that user's that is there, on a
\* device that is there (link_profile's rule and the composite foreign key of DeviceCredential).
OwnCredentialsIn(d) ==
  \A x \in Devices, u \in Users :
    LET k == Link(x, u)
    IN  d[k] # Gone => d[Device(x)] # Gone /\ d[Profile(d[k].profile)] # Gone /\ d[Profile(d[k].profile)].owner = u
OwnCredentials == OwnCredentialsIn(db)

CommitsNow(r) == tx[r] # Gone /\ tx'[r] = Gone
\* The step commits a request, and nothing was committed since that one read the database.
CommitsAlone(r) == CommitsNow(r) /\ tx[r].read = db

OfOthers(u) ==
  {k \in Keys : \/ k[1] \in {"link", "value", "binding"} /\ k[3] # u
                \/ k[1] \in {"mapping", "property"} /\ k[2] # u
                \/ k[1] = "profile" /\ db[k] # Gone /\ db[k].owner # u}

\* What a user keeps on a shared device is theirs: a request changes another user's link, value, binding, profile,
\* mapping or property only by deleting the device or making it local - requests at the same time included
\* ("others' on a global device stay", bind_mappings).
OthersUntouched ==
  \A r \in Requests : CommitsNow(r) /\ tx[r].op \notin {"delete", "make local"} =>
      \A k \in OfOthers(tx[r].by) : db'[k] = db[k]

\* A row that nobody can see any more: on a device that its user doesn't see, or a value without its property
Orphans(d) ==
  {k \in Keys : k[1] \in {"link", "value", "binding"} /\ d[k] # Gone
                /\ (~Sees(d, k[3], k[2]) \/ (k[1] = "value" /\ d[Property(k[3])] = Gone))}

\* A request that runs alone leaves no invisible orphans: what it takes from a user's sight - a device made local or
\* deleted, a property - goes with all that the user kept there (save_device, drop_other_users, properties_delete).
NoOrphans == \A r \in Requests : CommitsAlone(r) => Orphans(db') \subseteq Orphans(db)

\* A mapping that a request running alone binds to a device resolves there, with the values that the same request
\* saved, so that no rollout substitutes an empty value (bind_mappings, mappings_bulk_assign).
BoundResolves ==
  \A r \in Requests : CommitsAlone(r) =>
      \A x \in Devices, u \in Users :
        db[Binding(x, u)] = Gone /\ db'[Binding(x, u)] # Gone => Resolvable(db', u, x)

\* An import that runs alone never adds a second profile with credentials that one of the user's profiles has.
NoTwins ==
  \A r \in Requests : CommitsAlone(r) /\ tx[r].op = "import" =>
      \A p, q \in Profiles : p # q /\ db[Profile(p)] = Gone /\ db'[Profile(p)] # Gone => db'[Profile(q)] # db'[Profile(p)]

(***************************************************************************)
(* Why they hold.  A transaction changes its user's rows, and the id of a  *)
(* profile is not used again while a transaction remembers it: so a        *)
(* profile has one owner for as long as anyone can link it, and what a     *)
(* transaction decided alone is still so when nothing came between.        *)
(***************************************************************************)
Rows == DeviceRows \cup ProfileRows \cup MappingRows \cup LinkRows \cup ValueRows \cup PropertyRows \cup {Bound}
Database == {d \in [Keys -> Rows \cup {Gone}] : \A k \in Keys : d[k] = Gone \/ d[k] \in RowsOf(k)}
Ops == {"create", "edit", "make local", "attributes", "delete", "bulk link", "import", "profile", "mapping", "bulk assign",
        "property"}
Transactions == [by : Users, op : Ops, read : Database, wrote : Database]

\* What a transaction changes is its user's own, but for what a device made local drops.
Mine(t) ==
  \A k \in Keys : t.wrote[k] # t.read[k] =>
    /\ k[1] \in {"link", "value", "binding"} => k[3] = t.by \/ (t.op = "make local" /\ t.wrote[k] = Gone)
    /\ k[1] \in {"mapping", "property"} => k[2] = t.by
    /\ k[1] = "profile" => \A row \in {t.read[k], t.wrote[k]} \ {Gone} : row.owner = t.by
    /\ k[1] = "device" => t.wrote[k] # Gone \/ t.op = "delete"

\* A link that it sets is to one of its user's profiles.
LinksOwn(t) ==
  \A x \in Devices, u \in Users :
    LET k == Link(x, u)
    IN  t.wrote[k] \notin {t.read[k], Gone} =>
          t.wrote[Profile(t.wrote[k].profile)] # Gone /\ t.wrote[Profile(t.wrote[k].profile)].owner = u

\* What it comes to when nothing else is committed.
WhenAlone(t) ==
  LET d == Cascaded(t, t.wrote)
  IN  /\ Orphans(d) \subseteq Orphans(t.read)
      /\ \A x \in Devices, u \in Users :
           t.read[Binding(x, u)] = Gone /\ d[Binding(x, u)] # Gone => Resolvable(d, u, x)
      /\ t.op = "import" => \A p, q \in Profiles :
           p # q /\ t.read[Profile(p)] = Gone /\ d[Profile(p)] # Gone => d[Profile(q)] # d[Profile(p)]

\* The profiles that a transaction has read have the owner they had; one that it adds nobody else knows.
Remembered(r) ==
  \A p \in Profiles :
    LET k == Profile(p)
    IN  /\ tx[r].read[k] # Gone /\ db[k] # Gone => tx[r].read[k].owner = db[k].owner
        /\ tx[r].read[k] = Gone /\ tx[r].wrote[k] # Gone =>
             /\ db[k] = Gone
             /\ \A q \in Requests \ {r} : tx[q] # Gone => tx[q].read[k] = Gone /\ tx[q].wrote[k] = Gone

OwnInv ==
  /\ db \in Database /\ OwnCredentials /\ served \in 0..MaxRequests
  /\ tx \in [Requests -> Transactions \cup {Gone}]
  /\ \A r \in Requests : tx[r] # Gone => Mine(tx[r]) /\ LinksOwn(tx[r]) /\ WhenAlone(tx[r]) /\ Remembered(r)
=============================================================================
