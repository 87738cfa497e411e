----------------------------- MODULE SiteAccess -----------------------------
(***************************************************************************)
(* The host name and the certificate that nginx serves are changed:        *)
(* Access (src/src/access/service.py) saves a host name, uploads or makes  *)
(* a certificate; Nginx.apply (src/src/access/nginx.py) waits for the      *)
(* watcher's verdict and undoes what it rejects; CertificateStore          *)
(* (src/src/access/certs.py) writes the files under its lock, from a       *)
(* snapshot; the upkeep drops the names whose transition is over.          *)
(*                                                                         *)
(* Settings rows, site.env, the certs folder and nginx are four places;    *)
(* several admins and the upkeep change them at the same time.             *)
(***************************************************************************)
EXTENDS Naturals, FiniteSets

CONSTANTS
  Admins, Upkeep,  \* the actors; the upkeep is a thread of the app
  Names, First,    \* host names; the one installed with
  Uploads,         \* what an organisation's certificate may cover: sets of names
  MaxChanges,      \* how many changes are begun
  MaxFaults,       \* how many times files or the database can't be written, or a good pair is refused
  MaxWeeks         \* how many transition periods pass

VARIABLES
  host,     \* the saved public_hostname
  site,     \* site.env's host name
  files,    \* the certs folder: [cert, key, marker, old]
  lock,     \* CertificateStore.lock: who holds it
  doing,    \* actor -> its change; was: the host name its save replaced
  verdict,  \* status.json: [state, host, for]: the actors whose wait it is not too old for
  seen,     \* what the watcher looked at last
  count     \* [changes, faults, weeks]: so many so far; a transition begun now ends with the next week;
            \* torn: a write, or a putting back, has failed and left some of the files new, some old

vars == <<host, site, files, lock, doing, verdict, seen, count>>

Actors == Admins \cup {Upkeep}
Cert(serial, name, names) == [serial |-> serial, name |-> name, names |-> names]
NoOld == [n \in Names |-> 0]     \* .old-names.json: name -> the week its transition ends (0: not there)
Files(n) == [cert |-> Cert(0, n, {n}), key |-> 0, marker |-> TRUE, old |-> NoOld]
Ended(at) == [at |-> at, kind |-> "none", host |-> "none", before |-> "none", siteBefore |-> "none", was |-> "none",
              names |-> {}, serial |-> 0, saved |-> Files("none"), new |-> Files("none"), alone |-> TRUE]

\* Installed with NetRollout's own certificate for its host name.
Init ==
  /\ host = First /\ site = First
  /\ files = Files(First)
  /\ lock = "free" /\ doing = [a \in Actors |-> Ended("idle")]
  /\ verdict = [state |-> "applied", host |-> First, for |-> {}]
  /\ seen = <<First, 0, 0>>
  /\ count = [changes |-> 0, faults |-> 0, weeks |-> 0, torn |-> FALSE]

Goes(a, there) == doing' = [doing EXCEPT ![a].at = there]
Ends(a) == doing' = [doing EXCEPT ![a] = Ended("idle")]
\* A refused change is remembered while it is the only admin's (AllOrNothing).
Refused(a) == IF doing[a].alone THEN Goes(a, "refused") ELSE Ends(a)
Busy(a) == doing[a].at \notin {"idle", "refused"}

-----------------------------------------------------------------------------
(* What a change makes of the files *)

\* SelfSigned.rename_to: reissued; the names covered so far stay for the transition
Renamed(f, n, serial) ==
  LET old == [m \in Names |-> IF m = n THEN 0 ELSE IF f.old[m] > count.weeks THEN f.old[m]
                              ELSE IF m \in f.cert.names THEN count.weeks + 1 ELSE 0]
  IN [cert |-> Cert(serial, n, {n} \cup {m \in Names : old[m] # 0}), key |-> serial, marker |-> TRUE, old |-> old]

\* (a plausible bug: the marker stays beside an organisation's certificate)
InstalledMarked(f, names, serial) ==
  [cert |-> Cert(serial, "org", names), key |-> serial, marker |-> f.marker, old |-> NoOld]
\* install: the marker and the old names go
Installed(f, names, serial) ==
  [cert |-> Cert(serial, "org", names), key |-> serial, marker |-> FALSE, old |-> NoOld]

\* generate_selfsigned
Generated(n, serial) ==
  [cert |-> Cert(serial, n, {n}), key |-> serial, marker |-> TRUE, old |-> NoOld]

\* drop_expired: the previous names whose transition is over, never the name it was issued to
Expired(f) == {m \in f.cert.names \ {f.cert.name} : f.old[m] \in 1..count.weeks}
Dropped(f, serial) ==
  LET old == [m \in Names |-> IF f.old[m] > count.weeks THEN f.old[m] ELSE 0]
  IN IF Expired(f) = {} THEN [f EXCEPT !.old = old]
     ELSE [cert |-> Cert(serial, f.cert.name, f.cert.names \ Expired(f)), key |-> serial, marker |-> TRUE, old |-> old]

\* (a plausible bug: the upkeep reissues whatever certificate is there)
IsOursAny(f) == TRUE
\* current: by the marker
IsOurs(f) == f.marker

\* The files that this change wants, or none: refused
Wanted(a) ==
  LET d == doing[a]
      serial == doing[a].serial
  IN CASE d.kind = "rename" -> IF IsOurs(files) THEN {Renamed(files, d.host, serial)}
                               ELSE IF d.host \in files.cert.names THEN {files} ELSE {}
       [] d.kind = "upload" -> IF d.before \in d.names THEN {Installed(files, d.names, serial)} ELSE {}
       [] d.kind = "generate" -> {Generated(d.before, serial)}
       [] d.kind = "upkeep" -> IF IsOurs(files) /\ files.old # NoOld THEN {Dropped(files, serial)} ELSE {files}

\* The folder with these of its files new.
Mixed(saved, new, names) ==
  [cert |-> IF "cert" \in names THEN new.cert ELSE saved.cert, key |-> IF "key" \in names THEN new.key ELSE saved.key,
   marker |-> IF "marker" \in names THEN new.marker ELSE saved.marker,
   old |-> IF "old" \in names THEN new.old ELSE saved.old]
\* What is new when a change's next write fails: key first; what is old when putting back fails: the snapshot's order.
Written == {{}, {"key"}, {"key", "cert"}, {"key", "cert", "marker"}}
Restored == {{}, {"cert"}, {"cert", "key"}, {"cert", "key", "marker"}}
AllFiles == {"cert", "key", "marker", "old"}

\* One fault more; torn when it leaves the files neither as they were nor as they should become.
Faulted(saved, new) ==
  /\ count.faults < MaxFaults
  /\ count' = [count EXCEPT !.faults = @ + 1, !.torn = @ \/ files' \notin {saved, new}]

-----------------------------------------------------------------------------
(* A change: what it starts from is read before the lock *)

Waiting == {a \in Admins : Busy(a)}

\* plan (a save), or the saved host name (an upload, a new certificate); apply notes the time.
Begins(a, kind, n, names) ==
  /\ ~Busy(a) /\ count.changes < MaxChanges
  /\ count' = [count EXCEPT !.changes = @ + 1]
  /\ kind = "rename" => n # host
  /\ doing' = [b \in Actors |->
       IF b = a THEN [Ended("planned") EXCEPT !.kind = kind, !.host = n, !.names = names, !.serial = count.changes + 1,
                                              !.before = host, !.siteBefore = site,
                                              !.alone = a # Upkeep /\ \A c \in Admins \ {a} : ~Busy(c)]
       ELSE IF a = Upkeep \/ doing[b].kind = "none" THEN doing[b]
       ELSE IF doing[b].at = "refused" THEN Ended("idle") ELSE [doing[b] EXCEPT !.alone = FALSE]]
  /\ \E same \in SUBSET ({a} \ {Upkeep}) :   \* the last verdict may be of the same second
       verdict' = [verdict EXCEPT !.for = (@ \cap Waiting) \cup same]
  /\ UNCHANGED <<host, site, files, lock, seen>>

\* Under the lock: the snapshot, the checks, the key.
Locks(a) ==
  /\ doing[a].at = "planned" /\ lock = "free"
  /\ IF Wanted(a) = {}
     THEN Refused(a) /\ UNCHANGED <<files, lock>>
     ELSE /\ lock' = a
          /\ \E new \in Wanted(a) :
               /\ doing' = [doing EXCEPT ![a].at = "cert", ![a].saved = files, ![a].new = new, ![a].siteBefore = site]
               /\ files' = [files EXCEPT !.key = new.key]
  /\ UNCHANGED <<host, site, verdict, seen, count>>

AfterFiles(a) ==
  CASE doing[a].kind = "rename" -> "site" [] doing[a].kind = "upkeep" -> "idle" [] OTHER -> "verdict"

\* (a plausible bug: only a rename lets go of the lock)
LockAfterKept(a) == lock
\* A rename goes on to site.env under the lock.
LockAfter(a) == IF AfterFiles(a) = "site" THEN lock ELSE "free"

\* Key first, then the certificate with its marker and names.
WritesCert(a) ==
  /\ doing[a].at = "cert"
  /\ files' = doing[a].new
  /\ IF AfterFiles(a) = "idle" THEN Ends(a) ELSE Goes(a, AfterFiles(a))
  /\ lock' = LockAfter(a)
  /\ UNCHANGED <<host, site, verdict, seen, count>>

\* A file can't be written: the snapshot is put back, or that fails too, somewhere in between.
WriteFails(a) ==
  LET d == doing[a] IN
  /\ d.at \in {"cert", "site"} /\ d.kind # "upkeep"
  /\ \/ files' = d.saved /\ Refused(a)
     \/ /\ \E w \in IF d.at = "site" THEN {AllFiles} ELSE Written, p \in Restored : files' = Mixed(d.saved, d.new, w \ p)
        /\ Ends(a)
  /\ lock' = "free" /\ Faulted(d.saved, d.new)
  /\ UNCHANGED <<host, site, verdict, seen>>

\* drop_expired takes no snapshot: what the upkeep has written stays.
UpkeepFails(a) ==
  LET d == doing[a] IN
  /\ d.at = "cert" /\ d.kind = "upkeep"
  /\ \E w \in Written : files' = Mixed(d.saved, d.new, w)
  /\ lock' = "free" /\ Ends(a) /\ Faulted(d.saved, d.new)
  /\ UNCHANGED <<host, site, verdict, seen>>

\* change_hostname: site.env last, then the lock is given back.
WritesSite(a) ==
  /\ doing[a].at = "site"
  /\ site' = doing[a].host /\ lock' = "free"
  /\ Goes(a, "setting")
  /\ UNCHANGED <<host, files, verdict, seen, count>>

\* settings.update, which keeps what it replaces; a database that doesn't answer is no SettingsError: nothing is
\* backed out.
SavesSetting(a) ==
  /\ doing[a].at = "setting"
  /\ \/ /\ host' = doing[a].host /\ UNCHANGED count
        /\ doing' = [doing EXCEPT ![a].at = "verdict", ![a].was = IF host = doing[a].host THEN "none" ELSE host]
     \/ /\ count.faults < MaxFaults /\ count' = [count EXCEPT !.faults = @ + 1]
        /\ Ends(a) /\ UNCHANGED host
  /\ UNCHANGED <<site, files, lock, verdict, seen>>

\* A rule between settings broken meanwhile (SettingsError), or a port request that can't be written: backed out.
SettingRefused(a) ==
  /\ doing[a].at = "setting" /\ Goes(a, "undo_files")
  /\ UNCHANGED <<host, site, files, lock, verdict, seen, count>>

\* wait_for_status: the first verdict since the change began; of a new name, its own or a rejection
TakesVerdict(a) ==
  /\ doing[a].at = "verdict" /\ a \in verdict.for
  /\ \/ verdict.state = "rejected" /\ Goes(a, IF doing[a].kind = "rename" THEN "undo_setting" ELSE "undo_files")
     \/ /\ verdict.state = "applied" /\ (doing[a].kind = "rename" => verdict.host = doing[a].host)
        /\ Ends(a)
  /\ UNCHANGED <<host, site, files, lock, verdict, seen, count>>

\* No answer in time (or nginx is not NetRollout's): the change stays.
NoAnswer(a) ==
  /\ doing[a].at = "verdict" /\ Ends(a)
  /\ UNCHANGED <<host, site, files, lock, verdict, seen, count>>

\* What the save replaced, or nothing when it replaced nothing.
UndoesSetting(a) ==
  /\ doing[a].at = "undo_setting"
  /\ \/ host' = (IF doing[a].was = "none" THEN host ELSE doing[a].was) /\ Goes(a, "undo_files") /\ UNCHANGED count
     \/ /\ count.faults < MaxFaults /\ count' = [count EXCEPT !.faults = @ + 1]
        /\ Ends(a) /\ UNCHANGED host
  /\ UNCHANGED <<site, files, lock, verdict, seen>>

\* (a plausible bug: the host name is put back only together with the certificate)
PutsBackSiteWithCert(a) == site = doing[a].host /\ files = doing[a].new
\* put_back: while the host name is still the one this change wrote
PutsBackSite(a) == site = doing[a].host

\* Putting back fails somewhere in the files, before the host name, or at the host name.
UndoFails(a) ==
  LET d == doing[a] IN
  /\ d.at = "undo_files" /\ lock = "free"
  /\ \/ files = d.new /\ \E p \in Restored : files' = Mixed(d.saved, d.new, AllFiles \ p)
     \/ d.kind = "rename" /\ files' = IF files = d.new THEN d.saved ELSE files
  /\ Ends(a) /\ Faulted(d.saved, files)
  /\ UNCHANGED <<host, site, lock, verdict, seen>>

\* Under the lock: the files and the host name go back, each only while it is what this change wrote.
UndoesFiles(a) ==
  /\ doing[a].at = "undo_files" /\ lock = "free"
  /\ files' = IF files = doing[a].new THEN doing[a].saved ELSE files
  /\ site' = IF doing[a].kind = "rename" /\ PutsBackSite(a) THEN doing[a].siteBefore ELSE site
  /\ Refused(a)
  /\ UNCHANGED <<host, lock, verdict, seen, count>>

-----------------------------------------------------------------------------
(* nginx's watcher and the clock *)

Looks == <<site, files.cert.serial, files.key>>

\* The site is tested when something changed: a key of another certificate is refused, anything may be.
Watcher ==
  /\ seen # Looks
  /\ seen' = Looks
  /\ \/ /\ files.key = files.cert.serial
        /\ verdict' = [state |-> "applied", host |-> site, for |-> Waiting] /\ UNCHANGED count
     \/ /\ files.key = files.cert.serial
        /\ count.faults < MaxFaults /\ count' = [count EXCEPT !.faults = @ + 1]
        /\ verdict' = [state |-> "rejected", host |-> site, for |-> Waiting]
     \/ /\ files.key # files.cert.serial
        /\ verdict' = [state |-> "rejected", host |-> site, for |-> Waiting] /\ UNCHANGED count
  /\ UNCHANGED <<host, site, files, lock, doing>>

InTransition ==
  \E f \in {files} \cup {doing[a].saved : a \in Actors} \cup {doing[a].new : a \in Actors} : f.old # NoOld

\* A transition period passes, while the files hold a transition or a change may put one back.
Week ==
  /\ count.weeks < MaxWeeks
  /\ InTransition
  /\ count' = [count EXCEPT !.weeks = @ + 1]
  /\ UNCHANGED <<host, site, files, lock, doing, verdict, seen>>

-----------------------------------------------------------------------------

\* A transition is over: an upkeep that finds none writes nothing.
Overdue == \E m \in Names : files.old[m] \in 1..count.weeks

Step(a) ==
  \/ Locks(a) \/ WritesCert(a) \/ WriteFails(a) \/ UpkeepFails(a) \/ WritesSite(a)
  \/ SavesSetting(a) \/ SettingRefused(a) \/ TakesVerdict(a) \/ NoAnswer(a)
  \/ UndoesSetting(a) \/ UndoesFiles(a) \/ UndoFails(a)

Next ==
  \/ Watcher \/ Week
  \/ \E a \in Actors : Step(a)
  \/ \E a \in Admins, n \in Names : Begins(a, "rename", n, {})
  \/ \E a \in Admins, names \in Uploads : Begins(a, "upload", host, names)
  \/ \E a \in Admins : Begins(a, "generate", host, {})
  \/ Overdue /\ Begins(Upkeep, "upkeep", host, {})

Spec == Init /\ [][Next]_vars

-----------------------------------------------------------------------------
(* Properties: of states, and of steps (those with primes) *)

\* The places hold host names, and the lock is held by an actor that is writing.
TypeOK ==
  /\ host \in Names /\ site \in Names
  /\ lock # "free" => doing[lock].at \in {"cert", "site"}

\* Whatever is uploaded, made, reissued, refused and undone at the same time, the folder holds a certificate
\* with its own key, and the marker that lets NetRollout replace it is beside its own only - until an upkeep,
\* or a putting back, fails halfway.
PairWhole ==
  lock = "free" /\ ~count.torn => files.key = files.cert.serial /\ (files.marker <=> files.cert.name # "org")

\* "An organisation's certificate is never touched": one goes only when a person replaces it, or
\* when the upload that brought it is undone; never by a new host name or the upkeep, and a write of theirs
\* that fails halfway leaves it too.
OrganisationKept ==
  ~count.torn /\ files.cert.name = "org" /\ files'.cert # files.cert =>
     \E a \in Admins : doing[a].kind \in {"upload", "generate"} /\ doing'[a].at # doing[a].at

\* A change that was refused, with no other admin's change meanwhile: the setting and nginx's host
\* name are what they were, also when the upkeep has reissued the certificate in between, and the
\* certificate that was refused is not the one in place (unless files were torn).
AllOrNothing ==
  \A a \in Admins : doing[a].at = "refused" /\ doing[a].alone =>
    /\ host = doing[a].before /\ site = doing[a].siteBefore
    /\ ~count.torn /\ doing[a].new.cert # doing[a].saved.cert => files.cert # doing[a].new.cert

(***************************************************************************)
(* Why they hold.  The lock covers everything between the snapshot and the *)
(* last file, so that between changes the folder is one whole writing,     *)
(* unless one has failed halfway and was not put back;                     *)
(* every certificate has the number of the change that made it; and while  *)
(* an admin's change is the only one, the saved name, nginx's and the      *)
(* files are where its stage says.                                         *)
(***************************************************************************)
Stages == {"idle", "planned", "cert", "site", "setting", "verdict", "undo_setting", "undo_files", "refused"}
Hosts == Names \cup {"none"}
Folders == [cert : [serial : Nat, name : Hosts \cup {"org"}, names : SUBSET Hosts],
            key : Nat, marker : BOOLEAN, old : [Names -> Nat]]
\* A certificate with its own key, the marker beside NetRollout's only, and in transition are names it covers.
WholeFolders ==
  {f \in Folders : /\ f.key = f.cert.serial /\ (f.marker <=> f.cert.name # "org")
                   /\ \A m \in Names : f.old[m] # 0 => m \in f.cert.names \ {f.cert.name}}
AllChanges == [at : Stages, kind : {"none", "rename", "upload", "generate", "upkeep"}, host : Hosts, before : Hosts,
               siteBefore : Hosts, was : Hosts, names : SUBSET Names, serial : Nat, saved : Folders, new : Folders,
               alone : BOOLEAN]
\* What a change is at its stage, and what it makes of the files it found.
Changes ==
  {d \in AllChanges :
     /\ d.kind = "none" <=> d.at = "idle"
     /\ d.at \in {"site", "setting", "undo_setting"} => d.kind = "rename"
     /\ d.at \in {"verdict", "undo_files"} => d.kind # "upkeep"
     /\ d.kind = "rename" => d.host # d.before
     /\ d.kind # "none" => d.host \in Names /\ d.before \in Names /\ d.siteBefore \in Names
     /\ d.at = "planned" => d.new = d.saved
     /\ d.new.cert = d.saved.cert \/ d.new.cert.serial = d.serial}
\* When the folder it found was whole, so is the one it makes; an organisation's certificate is a person's matter.
MadeOfWhole(d) ==
  /\ d.saved \in WholeFolders /\ d.new \in WholeFolders
  /\ d.kind = "upkeep" /\ d.new.cert = d.saved.cert => d.new = d.saved
  /\ d.kind \in {"rename", "upkeep"} /\ "org" \in {d.saved.cert.name, d.new.cert.name} => d.new.cert = d.saved.cert

Typed ==
  /\ host \in Names /\ site \in Names /\ files \in Folders /\ lock \in Actors \cup {"free"}
  /\ doing \in [Actors -> Changes] /\ count \in [changes : Nat, faults : Nat, weeks : Nat, torn : BOOLEAN]
  /\ \A a \in Actors : doing[a].kind = "upkeep" => a = Upkeep
  /\ doing[Upkeep].kind \in {"none", "upkeep"}

\* One holds the lock, and the files are at its stage.
Holding ==
  /\ ~count.torn => (lock = "free" => files \in WholeFolders) /\ \A a \in Actors : MadeOfWhole(doing[a])
  /\ lock # "free" => doing[lock].at \in {"cert", "site"}
  /\ \A a \in Actors : doing[a].at \in {"cert", "site"} => lock = a
  /\ \A a \in Actors : doing[a].at = "cert" => files = [doing[a].saved EXCEPT !.key = doing[a].new.key]
  /\ \A a \in Actors : doing[a].at = "site" => files = doing[a].new

\* No two changes share a number.
Numbered ==
  /\ \A a \in Actors : doing[a].kind # "none" => doing[a].serial \in 1..count.changes
  /\ \A a, b \in Actors : doing[a].kind # "none" /\ doing[b].kind # "none" /\ doing[a].serial = doing[b].serial => a = b

HostAt(a) == IF doing[a].kind = "rename" /\ doing[a].at \in {"verdict", "undo_setting"} THEN doing[a].host
             ELSE doing[a].before
SiteAt(a) == IF doing[a].kind = "rename" /\ doing[a].at \in {"setting", "verdict", "undo_setting", "undo_files"}
             THEN doing[a].host ELSE doing[a].siteBefore
AloneAt(a) ==
  doing[a].kind # "none" /\ doing[a].alone =>
    /\ \A b \in Admins \ {a} : ~Busy(b)
    /\ host = HostAt(a) /\ site = SiteAt(a)
    /\ doing[a].kind = "rename" /\ doing[a].at \in {"verdict", "undo_setting"} => doing[a].was = doing[a].before
    /\ ~count.torn /\ doing[a].new.cert # doing[a].saved.cert /\ files.cert = doing[a].new.cert =>
         /\ doing[a].at \in {"site", "setting", "verdict", "undo_setting", "undo_files"}
         /\ files.marker = doing[a].new.marker /\ files.old = doing[a].new.old
Alone == \A a \in Admins : AloneAt(a)

AccessInv == Typed /\ Holding /\ Numbered /\ Alone

\* Access: "the settings, the certs folder, nginx and the port request, changed together - all or
\* nothing": when no change is under way, nginx's host name is the saved one.
HostnamesAgree == (\A a \in Actors : ~Busy(a)) => site = host

\* CertificateStore: "every change runs under one lock, from a snapshot of those files - all or nothing", the
\* upkeep's included
PairAlwaysWhole == lock = "free" => files.key = files.cert.serial
=============================================================================
