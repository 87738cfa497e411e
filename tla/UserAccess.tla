------------------------------ MODULE UserAccess ------------------------------
(* Who may sign in, for how long, to what they own, and how long it is kept.  A behaviour is of one   *)
(* of the five components; the variables that are not this component's hold nothing.                  *)
EXTENDS Naturals, FiniteSets

CONSTANTS Requests, Gone, None,
  Names, Folded, Factory, Servers, Groups, AccountRows, MaxRequests,
  Browsers, MaxFailed, DisableAfter, MaxWrongCodes, MaxSteps,
  People, Sids, MaxVisits, IdleLimit, Absolute, MaxTime,
  Owners, Admins, Devices, Profiles, Credentials, InventoryRows, MaxEdits,
  Jobs, Savers, Day, RunAt, Retry, Days, Default, Over, MaxNights

\* The limits of wrong passwords and wrong codes are constants of the code: DISABLE_AFTER is twice
\* MAX_FAILED_PASSWORDS.
ASSUME LimitsAssumption ==
  /\ IsFiniteSet(Browsers)
  /\ {MaxFailed, DisableAfter, MaxWrongCodes} \subseteq Nat \ {0} /\ MaxFailed <= DisableAfter

\* Sessions are numbered as they are made; both limits are settings of minutes and hours.
ASSUME SessionsAssumption ==
  /\ IsFiniteSet(Sids) /\ Sids = 1..Cardinality(Sids)
  /\ {IdleLimit, Absolute, MaxTime} \subseteq Nat

\* A setting of the retention has a least value, and the defaults keep the rules between them.
ASSUME RetentionAssumption ==
  /\ Days \subseteq Nat /\ \E d \in Days : \A e \in Days : d <= e
  /\ Default \in [{"log", "job", "config"} -> Days]
  /\ Default["config"] <= Default["job"] /\ Default["job"] <= Default["log"]
  /\ {Day, RunAt, Retry, MaxNights} \subseteq Nat /\ Day > 0
  /\ None \notin Nat /\ Over # None

VARIABLES part,
  db, tx, served,
  factory, acc, stop, session, req, wrongs, steps,
  now, store, made, active, ended, late,
  saved, save, job, lastRun, retryAt, status, raced

Account == INSTANCE Accounts WITH First <- AccountRows
Door == INSTANCE SignIn
Stay == INSTANCE Sessions WITH Users <- People, MaxRequests <- MaxVisits
Own == INSTANCE Inventory WITH Users <- Owners, First <- InventoryRows, MaxRequests <- MaxEdits
Keep == INSTANCE Retention WITH MaxTime <- MaxNights

\* Gone is the absence of a request: no request that is handled is it.
ASSUME GoneAssumption == Gone \notin Stay!Handled

\* Usernames, servers and rules are of their own kinds, usernames are finitely many, and neither absence is one of
\* them or a row.  What the database holds first is of its schema, with the factory admin that the setup seeds.
ASSUME AccountsAssumption ==
  /\ MaxRequests \in Nat /\ IsFiniteSet(Names) /\ Factory \in Names /\ None \notin Servers
  /\ Names \cap Servers = {} /\ Names \cap Account!Rules = {} /\ Servers \cap Account!Rules = {}
  /\ Gone \notin Account!UserRows \cup Account!ServerRows \cup Account!RuleRows \cup Account!Transactions
  /\ AccountRows \subseteq Account!Databases

\* Gone is no row and no profile.  What the database holds first is of its schema, and keeps its foreign keys.
ASSUME InventoryAssumption ==
  /\ MaxEdits \in Nat /\ Gone \notin Own!Rows \cup Profiles
  /\ \A d \in InventoryRows : d \in Own!Database /\ Own!OwnCredentialsIn(d)

-----------------------------------------------------------------------------

rowVars == <<db, tx>>
doorVars == <<factory, acc, stop, session, wrongs, steps>>
stayVars == <<store, made, active, ended, late>>
keepVars == <<saved, save, job, lastRun, retryAt, status, raced>>
vars == <<part, rowVars, served, req, now, doorVars, stayVars, keepVars>>

NoRow == db = None /\ tx = None
NoDoor == factory = None /\ acc = None /\ stop = None /\ session = None /\ wrongs = None /\ steps = None
NoStay == store = None /\ made = None /\ active = None /\ ended = None /\ late = None
NoKeep == saved = None /\ save = None /\ job = None /\ lastRun = None /\ retryAt = None /\ status = None /\ raced = None

Init ==
  \/ part = "accounts" /\ Account!Init /\ req = None /\ now = None /\ NoDoor /\ NoStay /\ NoKeep
  \/ part = "sign-in" /\ Door!Init /\ served = None /\ now = None /\ NoRow /\ NoStay /\ NoKeep
  \/ part = "sessions" /\ Stay!Init /\ NoRow /\ NoDoor /\ NoKeep
  \/ part = "inventory" /\ Own!Init /\ req = None /\ now = None /\ NoDoor /\ NoStay /\ NoKeep
  \/ part = "retention" /\ Keep!Init /\ served = None /\ req = None /\ NoRow /\ NoDoor /\ NoStay

Next ==
  /\ UNCHANGED part
  /\ \/ part = "accounts" /\ Account!Next /\ UNCHANGED <<req, now, doorVars, stayVars, keepVars>>
     \/ part = "sign-in" /\ Door!Next /\ UNCHANGED <<served, now, rowVars, stayVars, keepVars>>
     \/ part = "sessions" /\ Stay!Next /\ UNCHANGED <<rowVars, doorVars, keepVars>>
     \/ part = "inventory" /\ Own!Next /\ UNCHANGED <<req, now, doorVars, stayVars, keepVars>>
     \/ part = "retention" /\ Keep!Next /\ UNCHANGED <<served, req, rowVars, doorVars, stayVars>>

Spec == Init /\ [][Next]_vars

\* Accounts: the factory admin stays a local administrator, and a request that runs alone never takes the
\* last administrator away, leaves an active account without a directory, or makes a second account of a
\* name in other capitals.
AccountsSafe ==
  /\ [](part = "accounts" => Account!TypeOK /\ Account!FactoryStays)
  /\ [][part = "accounts" => Account!LastAdminStays /\ Account!WayInFirst /\ Account!OnePerName]_vars

\* SignIn: wrong passwords from several places each count, nobody is signed in on the password alone, only
\* a reset allows a new authenticator, and no sign-in lifts a lock that holds.
SignInSafe ==
  /\ [](part = "sign-in" => Door!TypeOK /\ Door!WrongOnesEndIt /\ Door!SecondFactor)
  /\ [][part = "sign-in" => Door!AuthenticatorStays /\ Door!LockHolds]_vars

\* Sessions: what Sign out everywhere ended stays ended, but for requests that were being handled, and a
\* request is served within the idle limit of what a person did and within the absolute one.
SessionsSafe ==
  /\ [](part = "sessions" => Stay!TypeOK /\ Stay!EndedStays)
  /\ [][part = "sessions" => Stay!ServedInTime]_vars

\* Inventory: a rollout signs in with the user's own credentials, what a user keeps on a shared device is
\* theirs, and a request that runs alone leaves no orphans, binds nothing that doesn't resolve and makes
\* no second profile of the same credentials.
InventorySafe ==
  /\ [](part = "inventory" => Own!TypeOK /\ Own!OwnCredentials)
  /\ [][part = "inventory" =>
          Own!OthersUntouched /\ Own!NoOrphans /\ Own!BoundResolves /\ Own!NoTwins]_vars

\* Retention: saves that do not overlap keep the rules, a rollout's commands expire with its results, a
\* clean-up on record is not done again the same night, and a log is there as long as its record.
RetentionSafe ==
  /\ [](part = "retention" => Keep!TypeOK /\ Keep!RulesKept /\ Keep!ExpireTogether)
  /\ [][part = "retention" => Keep!OncePerNight /\ Keep!LogKept]_vars

-----------------------------------------------------------------------------
(* What comments of the code say and the models do not: no configuration lists these *)

\* Accounts: requests at the same time never take the last administrator away.
NeverNoAdmin == [][part = "accounts" => Account!NeverNoAdmin]_vars
\* Sessions: Sign out everywhere ends every session.
AllEnded == part = "sessions" => Stay!AllEnded
===============================================================================
