---------------------------- MODULE HostKeyStore ----------------------------
(***************************************************************************)
(* The SSH host keys of one target: the stored keys, what a connection is  *)
(* checked against and what it records (src/src/host_keys.py), the check   *)
(* itself with its retry for an HA pair (src/src/rollout/host_keys.py,     *)
(* _connect of src/src/rollout/session.py), and the admin's decisions      *)
(* (src/src/webapp/blueprints/admin_servers.py).                           *)
(*                                                                         *)
(* The device is whatever answers at the target: it may show another key   *)
(* at each connection.  A database session is one step, except that the    *)
(* question whether a key is accepted already and the insert are two.      *)
(***************************************************************************)
EXTENDS Naturals, FiniteSets, Functions

CONSTANTS
  Keys,         \* the host keys devices show
  KeyType,      \* key -> its type
  Runs,         \* what connects: rollouts, tests, a discovery's Add
  MaxSessions,  \* bound: the connections the runs make
  MaxAttempts   \* bound: the attempts of one connection (above what the code makes)

VARIABLES
  stored,    \* table host_keys: key -> "no", "accepted", "refused"
  on,        \* host_key_mode is not off
  blocked,   \* a database move blocks writes
  run,       \* where each run is, and its policy
  signedIn   \* history: the keys of the devices each run sent its password to

vars == <<stored, on, blocked, run, signedIn>>

Accepted == {k \in Keys : stored[k] = "accepted"}
Types == Range(KeyType)

\* HostKeyPolicy and HostKeyCheck: known, learn, whether seen() was made to learn, loaded (one key
\* per type), tried; the key shown; the attempts and the connections so far.
Policy(there, known, learn, learned) ==
  [at |-> there, known |-> known, learn |-> learn, learned |-> learned, loaded |-> {}, tried |-> {},
   key |-> {}, attempts |-> 0, sessions |-> 0]
Checks(p) == p.known # {} \/ p.learn
At(p, there) == [p EXCEPT !.at = there]

Init ==
  /\ stored = [k \in Keys |-> "no"]
  /\ on \in BOOLEAN /\ blocked = FALSE
  /\ run = [r \in Runs |-> Policy("rest", {}, FALSE, FALSE)]
  /\ signedIn = [r \in Runs |-> {}]

Is(r, here, next) == run[r].at = here /\ run' = [run EXCEPT ![r] = next]

-----------------------------------------------------------------------------
(* The policy, and one connection *)

\* policy(): off (nothing is checked), or asked for the keys next; learn is FALSE for a device not saved yet.
PolicyAsks(r) ==
  /\ \E learn \in BOOLEAN :
       Is(r, "rest", Policy(IF on THEN "asked" ELSE "ready", {}, on /\ learn, FALSE))
  /\ UNCHANGED <<stored, on, blocked, signedIn>>

\* known(): asks again whether checking is on.
PolicyKnown(r) ==
  /\ LET known == IF on THEN Accepted ELSE {}
     IN  Is(r, "asked", Policy("ready", known, run[r].learn /\ known = {}, known = {}))
  /\ UNCHANGED <<stored, on, blocked, signedIn>>

\* HostKeyCheck.__enter__: one known key per type is loaded.
OnePerType(known, loaded) ==
  /\ loaded \subseteq known
  /\ \A k \in known : \E l \in loaded : KeyType[l] = KeyType[k]
  /\ \A k, l \in loaded : KeyType[k] = KeyType[l] => k = l

Connections == FoldFunction(LAMBDA p, n : n + p.sessions, 0, run)

\* HostKeyCheck begins, with the keys it loaded.
Connecting(p, loaded) ==
  [p EXCEPT !.at = "trying", !.loaded = loaded, !.tried = loaded, !.attempts = 0, !.sessions = @ + 1]

Connects(r) ==
  /\ Connections < MaxSessions
  /\ \E loaded \in SUBSET Keys :
       /\ OnePerType(run[r].known, loaded)
       /\ Is(r, "ready", Connecting(run[r], loaded))
  /\ UNCHANGED <<stored, on, blocked, signedIn>>

\* (a plausible bug: the HA retry forgets which keys it tried)
AlternativeAlways(p, k) == k \in p.known
\* alternative(): another accepted key, each loaded once
Alternative(p, k) == k \in p.known \ p.tried

\* (a plausible bug: any key is let in while learning is on, or one whose type is not known)
LetsInUnknown(p, k) == p.known = {} \/ k \in p.loaded \/ \A l \in p.loaded : KeyType[l] # KeyType[k]
\* paramiko: no keys loaded, every key will do; else the loaded one of its type
LetsIn(p, k) == p.known = {} \/ k \in p.loaded

\* The device shows k; another key is loaded in place of those of its type.
Shown(p, k) == [p EXCEPT !.attempts = @ + 1, !.key = {k}]
SameType(p, k) == {l \in p.loaded : KeyType[l] = KeyType[k]}
TryingAlso(p, k) == [p EXCEPT !.tried = @ \cup {k}, !.loaded = (@ \ SameType(p, k)) \cup {k}]

\* One attempt: in (the password sent); the HA pair's other unit: once more; another accepted key,
\* all tried (the units took turns), or a key of a type not loaded: failed; any other key: refused.
Attempt(r) ==
  /\ run[r].at = "trying" /\ run[r].attempts < MaxAttempts
  /\ \E k \in Keys :
       LET p == Shown(run[r], k)
           again == SameType(p, k) # {} /\ Alternative(p, k)
           ends(there) == run' = [run EXCEPT ![r] = At(p, there)]
       IN  \/ /\ LetsIn(p, k)
              /\ ends(IF Checks(p) THEN "seen" ELSE "ready")
              /\ signedIn' = [signedIn EXCEPT ![r] = @ \cup (IF Checks(p) THEN {k} ELSE {})]
           \/ /\ ~LetsIn(p, k) /\ again
              /\ run' = [run EXCEPT ![r] = TryingAlso(p, k)]
              /\ UNCHANGED signedIn
           \/ /\ ~LetsIn(p, k) /\ (SameType(p, k) = {} \/ k \in p.known) /\ ~again
              /\ ends("over")
              /\ UNCHANGED signedIn
           \/ /\ ~LetsIn(p, k) /\ SameType(p, k) # {} /\ k \notin p.known
              /\ ends("refused")
              /\ UNCHANGED signedIn
  /\ UNCHANGED <<stored, on, blocked>>

\* (a plausible bug: the key learned is not kept for the run)
PinsNot(p) == p
\* pinned(): a key learned is the only one known for the run's later connections
Pins(p) == IF p.learn THEN [p EXCEPT !.known = p.key, !.learn = FALSE] ELSE p
After(p) == At(Pins(p), "ready")

-----------------------------------------------------------------------------
(* What a connection records *)

\* (a plausible bug: whatever was shown may be stored)
MayLearnAny(p) == Accepted = {}
\* _seen: a key is stored only when the policy had none and there is none now
MayLearn(p) == p.learned /\ Accepted = {}

\* Not while writes are blocked; a database error is printed, the connection goes on.
Seen(r) ==
  /\ Is(r, "seen", IF MayLearn(run[r]) /\ ~blocked THEN At(run[r], "learning") ELSE After(run[r]))
  /\ UNCHANGED <<stored, on, blocked, signedIn>>

\* learn(): a refused key is accepted now, a stored one left as it is.
Learns(r) ==
  /\ Is(r, "learning", After(run[r]))
  /\ \/ stored' = [k \in Keys |-> IF k \in run[r].key THEN "accepted" ELSE stored[k]]
     \/ UNCHANGED stored
  /\ UNCHANGED <<on, blocked, signedIn>>

\* store(): Discover's Add, of the key its scan saw
Adding(k) == [Policy("learning", {}, FALSE, TRUE) EXCEPT !.key = {k}]
AddStores(r) ==
  /\ on /\ ~blocked /\ Accepted = {}
  /\ \E k \in Keys : Is(r, "rest", Adding(k))
  /\ UNCHANGED <<stored, on, blocked, signedIn>>

\* (a plausible bug: a key known already is refused as well)
RefusedState(k) == "refused"
\* refuse(): a key stored already stays what it is
RefuseState(k) == IF stored[k] = "no" THEN "refused" ELSE stored[k]

Refuses(r) ==
  /\ Is(r, "refused", At(run[r], "over"))
  /\ \/ ~blocked /\ stored' = [k \in Keys |-> IF k \in run[r].key THEN RefuseState(k) ELSE stored[k]]
     \/ UNCHANGED stored
  /\ UNCHANGED <<on, blocked, signedIn>>

\* The run is over; another may begin.
Leaves(r) ==
  /\ run[r].at \in {"ready", "over"}
  /\ run' = [run EXCEPT ![r] = Policy("rest", {}, FALSE, FALSE)]
  /\ signedIn' = [signedIn EXCEPT ![r] = {}]
  /\ UNCHANGED <<stored, on, blocked>>

-----------------------------------------------------------------------------
(* The admin: accept (in place of the others of its type, or beside them), remove, reset, the mode *)

\* (a plausible bug: the keys it takes the place of stay)
ReplacedNone(k) == {}
Replaced(k) == {l \in Accepted \ {k} : KeyType[l] = KeyType[k]}

Accept(k) ==
  /\ ~blocked /\ stored[k] = "refused"
  /\ \E gone \in {Replaced(k), {}} :
       stored' = [l \in Keys |-> IF l = k THEN "accepted" ELSE IF l \in gone THEN "no" ELSE stored[l]]
  /\ UNCHANGED <<on, blocked, run, signedIn>>

Remove(k) ==
  /\ ~blocked /\ stored[k] # "no"
  /\ stored' = [stored EXCEPT ![k] = "no"]
  /\ UNCHANGED <<on, blocked, run, signedIn>>

Reset ==
  /\ ~blocked
  /\ stored' = [k \in Keys |-> "no"]
  /\ UNCHANGED <<on, blocked, run, signedIn>>

Switches ==
  /\ \/ on' = ~on /\ UNCHANGED blocked
     \/ blocked' = ~blocked /\ UNCHANGED on
  /\ UNCHANGED <<stored, run, signedIn>>

-----------------------------------------------------------------------------

Run(r) ==
  \/ PolicyAsks(r) \/ PolicyKnown(r) \/ Connects(r) \/ Attempt(r) \/ Seen(r) \/ Learns(r)
  \/ AddStores(r) \/ Refuses(r) \/ Leaves(r)

Next ==
  \/ \E r \in Runs : Run(r)
  \/ \E k \in Keys : Accept(k) \/ Remove(k)
  \/ Reset \/ Switches

Spec == Init /\ [][Next]_vars

-----------------------------------------------------------------------------
(* Properties: of states, and of steps (those with primes) *)

Steps == {"rest", "asked", "ready", "trying", "seen", "learning", "refused", "over"}

Policies == [at : Steps, known : SUBSET Keys, learn : BOOLEAN, learned : BOOLEAN,
             loaded : SUBSET Keys, tried : SUBSET Keys, key : SUBSET Keys,
             attempts : 0..MaxAttempts, sessions : Nat]

\* Every part of the state has its kind of value.
TypeOK ==
  /\ stored \in [Keys -> {"no", "accepted", "refused"}]
  /\ on \in BOOLEAN /\ blocked \in BOOLEAN
  /\ run \in [Runs -> Policies]
  /\ signedIn \in [Runs -> SUBSET Keys]

\* A password goes to devices with a key the run knew as accepted, or, when none was, to one device
\* only: the key its first connection learned is the only one for all its later ones.
PasswordsKept ==
  \A r \in Runs : signedIn[r] \subseteq run[r].known \/ Cardinality(signedIn[r]) <= 1

\* Units of an HA pair that answer in turn keep a connection busy for at most one attempt per key.
RetriesEnd == \A r \in Runs : run[r].attempts <= 1 \/ run[r].attempts <= Cardinality(run[r].known)

\* A late refusal, of a connection checked against an older list, never takes back an acceptance.
AcceptanceStays == \A k \in Keys : stored[k] = "accepted" => stored'[k] # "refused"

\* A key becomes accepted by an admin's decision about a refused key, or because a run that found no
\* accepted key saw it: a connection under way when the keys are reset does not bring its old key back.
AcceptedForAReason ==
  \A k \in Keys : stored[k] # "accepted" /\ stored'[k] = "accepted" =>
     \/ stored[k] = "refused" /\ run' = run
     \/ \E r \in Runs : run[r].at = "learning" /\ run[r].learned /\ run[r].key = {k}

-----------------------------------------------------------------------------
(***************************************************************************)
(* Why they hold: the runs share nothing but the stored keys, and what a   *)
(* run may do next follows from its policy p and from the keys `signed` of *)
(* the devices that have its password.                                     *)
(***************************************************************************)

\* A run learns only when it knew no key, and what it has seen is one key.
LearnsOne(p) ==
  /\ p.learn => p.known = {}
  /\ p.at \in {"seen", "learning"} => \E k \in Keys : p.key = {k}
  /\ p.at = "learning" => p.learned

\* Each attempt after the first is for an accepted key that was not tried before it.
TriesAnew(p) ==
  /\ p.at = "trying" => /\ p.loaded \subseteq p.tried /\ p.tried \subseteq p.known
                        /\ p.attempts = 0 \/ p.attempts < Cardinality(p.tried)
  /\ p.attempts <= 1 \/ p.attempts <= Cardinality(p.known)

\* The password went nowhere yet, to devices with known keys, or to the one whose key is being learned.
SignedInKnown(p, signed) ==
  \/ signed = {}
  \/ p.known # {} /\ signed \subseteq p.known /\ p.at \notin {"rest", "asked"}
  \/ p.learn /\ p.at \in {"seen", "learning"} /\ signed \subseteq p.key

RunInv(p, signed) == p \in Policies /\ LearnsOne(p) /\ TriesAnew(p) /\ SignedInKnown(p, signed)
StoreInv == TypeOK /\ \A r \in Runs : RunInv(run[r], signedIn[r])
=============================================================================
