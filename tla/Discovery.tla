----------------------------- MODULE Discovery -----------------------------
(***************************************************************************)
(* A discovery: the scan with its port checks, its paced sign-ins and its  *)
(* pause (src/src/discovery/scan.py), the server's one discovery           *)
(* (src/src/webapp/discoveries.py) and the devices created from what it    *)
(* found (src/src/webapp/blueprints/discovery.py).                         *)
(*                                                                         *)
(* Grain.  A block under the scan's lock is one step, and so is a sign-in. *)
(* A worker that takes an address and asks the skip rule, or gets the turn *)
(* and asks whether to stop, does both in one step: nobody else can tell.  *)
(* Of a discovery that is not the last one only its findings are left.     *)
(***************************************************************************)
EXTENDS Naturals, FiniteSets, FiniteSetsExt

CONSTANTS
  Scans,        \* bound: 1..n, the discoveries people start
  Addresses,    \* 1..n, in the order of the targets
  Workers,      \* the sign-in threads (SIGN_INS)
  Limit,        \* FAILURES_BEFORE_PAUSE
  Requests,     \* the create requests answered at the same time
  MaxContinues  \* bound: the presses of Continue

ASSUME LimitAssumption == Limit \in Nat \ {0}
ASSUME WorkersAssumption == IsFiniteSet(Workers) /\ Workers # {}
\* The targets are listed before the scan, and the model's bounds are numbers.
ASSUME AddressesAssumption == Addresses \subseteq Nat /\ IsFiniteSet(Addresses)
ASSUME BoundsAssumption == Scans \subseteq Nat \ {0} /\ MaxContinues \in Nat

VARIABLES
  server,  \* Discoveries: serial (the last one), kept (it is _current), stopping (draining, or
           \* a database move)
  scan,    \* DiscoveryScan of the last one
  place,   \* where each of its addresses is
  worker,  \* where each sign-in thread is
  cards,   \* <<discovery, address>>: the findings, of every discovery
  created, \* those marked as created
  devices, \* how many devices were saved from each
  request, \* where each create request is
  since    \* history, since the last Continue: the sign-ins begun (workers at it) and those that failed

vars == <<server, scan, place, worker, cards, created, devices, request, since>>

Findings == Scans \X Addresses

Ended == {"done", "cancelled"}
Phases == {"running", "paused", "cancelling"} \cup Ended
Open == {"queued", "taken", "line", "card"}

Fresh(phase, main) ==
  [phase |-> phase, login |-> phase = "running", continues |-> 0, failures |-> 0, signingIn |-> 0,
   early |-> FALSE, turn |-> {}, ends |-> 0, main |-> main]

Init ==
  /\ server = [serial |-> 0, kept |-> FALSE, stopping |-> FALSE]
  /\ scan = Fresh("done", "over")
  /\ place = [a \in Addresses |-> "unchecked"]
  /\ worker = [w \in Workers |-> [at |-> "gone"]]
  /\ cards = {} /\ created = {} /\ devices = [f \in Findings |-> 0]
  /\ request = [r \in Requests |-> [at |-> "rest"]]
  /\ since = [begun |-> {}, failed |-> {}]

-----------------------------------------------------------------------------
(* The server's one discovery *)

\* (a plausible bug: a paused one counts as over)
NoneRunningPaused == scan.phase \in Ended \cup {"paused"}
NoneRunning == server.kept => scan.phase \in Ended

\* start(), under its lock: not while one runs, else a new scan is the current one and its thread
\* starts.  refusal() is asked before the lock: a stop may have begun since.
Start ==
  /\ NoneRunning /\ server.serial + 1 \in Scans
  /\ server' = [server EXCEPT !.serial = @ + 1, !.kept = TRUE]
  /\ scan' = Fresh("running", "begin")
  /\ place' = [a \in Addresses |-> "todo"]
  /\ worker' = [w \in Workers |-> [at |-> "unborn"]]
  /\ since' = [begun |-> {}, failed |-> {}]
  /\ UNCHANGED <<cards, created, devices, request>>

\* current(): dropped KEEP_FOR seconds after its end.
Expires ==
  /\ server.kept /\ scan.phase \in Ended
  /\ server' = [server EXCEPT !.kept = FALSE]
  /\ UNCHANGED <<scan, place, worker, cards, created, devices, request, since>>

\* What _stop_when answers changes: NetRollout begins to stop, a move begins or is over.
StopChanges ==
  /\ server' = [server EXCEPT !.stopping = ~@]
  /\ UNCHANGED <<scan, place, worker, cards, created, devices, request, since>>

\* Continue: the failures count from here.
Proceed ==
  /\ server.kept /\ scan.phase = "paused" /\ scan.continues < MaxContinues
  /\ scan' = [scan EXCEPT !.continues = @ + 1, !.failures = 0, !.phase = "running"]
  /\ since' = [begun |-> {}, failed |-> {}]
  /\ UNCHANGED <<server, place, worker, cards, created, devices, request>>

CancelledPhase == IF scan.phase \in {"running", "paused"} THEN "cancelling" ELSE scan.phase

Cancel ==
  /\ server.kept /\ scan.phase \in {"running", "paused"}
  /\ scan' = [scan EXCEPT !.phase = CancelledPhase]
  /\ UNCHANGED <<server, place, worker, cards, created, devices, request, since>>

-----------------------------------------------------------------------------
(* The scan's thread and its port checks *)

RunBegins ==
  /\ scan.main = "begin"
  /\ scan' = [scan EXCEPT !.main = "checking"]
  /\ worker' = [w \in Workers |-> [at |-> "idle"]]
  /\ UNCHANGED <<server, place, cards, created, devices, request, since>>

\* _check: an address's port, unless cancelled; an open one joins the queue.
Knocks(a) ==
  /\ scan.main = "checking" /\ place[a] = "todo"
  /\ place' = [place EXCEPT ![a] = IF scan.phase = "cancelling" THEN "unchecked" ELSE "knocking"]
  /\ UNCHANGED <<server, scan, worker, cards, created, devices, request, since>>

Knocked(a) ==
  /\ place[a] = "knocking"
  /\ \E answer \in {"queued", "closed"} : place' = [place EXCEPT ![a] = answer]
  /\ UNCHANGED <<server, scan, worker, cards, created, devices, request, since>>

\* (a plausible bug: one end too few)
EndsShort == Cardinality(Workers) - 1
Ends == Cardinality(Workers)

\* Every check is over: an entry after every address that ends it, for each worker.
ChecksOver ==
  /\ scan.main = "checking"
  /\ \A a \in Addresses : place[a] \notin {"todo", "knocking"}
  /\ scan' = [scan EXCEPT !.ends = Ends, !.main = "joining"]
  /\ UNCHANGED <<server, place, worker, cards, created, devices, request, since>>

\* (a plausible bug: the workers are not waited for)
JoinedAtOnce == TRUE
Joined == \A w \in Workers : worker[w].at = "gone"

\* The workers joined: the login dropped, the scan ended (on_end then writes the audit row).
RunEnds ==
  /\ scan.main = "joining" /\ Joined
  /\ scan' = [scan EXCEPT !.login = FALSE, !.main = "over",
                          !.phase = IF scan.phase = "cancelling" THEN "cancelled" ELSE "done"]
  /\ UNCHANGED <<server, place, worker, cards, created, devices, request, since>>

-----------------------------------------------------------------------------
(* The sign-in threads *)

Queued == {a \in Addresses : place[a] = "queued"}
Goes(w, there) == worker' = [worker EXCEPT ![w] = there]

\* (a plausible bug: the end of the queue sorted before the addresses; an empty queue taken for it)
EndFirst == scan.ends > 0
EndAny == Queued = {}
EndNext == scan.ends > 0 /\ Queued = {}

\* _queue.get(): the ends come after every address.
TakesEnd(w) ==
  /\ worker[w].at = "idle" /\ EndNext
  /\ Goes(w, [at |-> "gone"])
  /\ scan' = [scan EXCEPT !.ends = @ - 1]
  /\ UNCHANGED <<server, place, cards, created, devices, request, since>>

\* The lowest address; the skip rule: in the inventory, in a rollout, or the question failed (a
\* line), else it waits for its turn.
Takes(w) ==
  /\ worker[w].at = "idle" /\ Queued # {}
  /\ \/ Goes(w, [at |-> "idle"]) /\ place' = [place EXCEPT ![Min(Queued)] = "line"]
     \/ /\ Goes(w, [at |-> "queueing", address |-> Min(Queued)])
        /\ place' = [place EXCEPT ![Min(Queued)] = "taken"]
  /\ UNCHANGED <<server, scan, cards, created, devices, request, since>>

\* stop_when is asked before each wait, not after it.
AskedPhase == IF server.stopping THEN CancelledPhase ELSE scan.phase

\* _wait_turn: one at a time
GetsTurn(w) ==
  /\ worker[w].at = "queueing" /\ scan.turn = {}
  /\ scan' = [scan EXCEPT !.turn = {w}, !.phase = AskedPhase]
  /\ Goes(w, [at |-> "waiting", address |-> worker[w].address])
  /\ UNCHANGED <<server, place, cards, created, devices, request, since>>

\* (a plausible bug: a pause only keeps the page waiting)
MayStartPaused == scan.phase \in {"running", "paused"} /\ scan.login
MayStart == scan.phase = "running" /\ scan.login

\* Not while paused; given up once cancelled; too early: sleep and ask again; else the sign-in begins.
TurnComes(w) ==
  /\ worker[w].at = "waiting"
  /\ \/ /\ ~MayStart /\ scan.phase # "paused"
        /\ scan' = [scan EXCEPT !.turn = {}]
        /\ Goes(w, [at |-> "idle"])
        /\ place' = [place EXCEPT ![worker[w].address] = "line"]
        /\ UNCHANGED since
     \/ /\ MayStart /\ scan.early
        /\ scan' = [scan EXCEPT !.phase = AskedPhase]
        /\ UNCHANGED <<worker, place, since>>
     \/ /\ MayStart /\ ~scan.early
        /\ scan' = [scan EXCEPT !.turn = {}, !.early = TRUE, !.signingIn = @ + 1]
        /\ Goes(w, [at |-> "signing", address |-> worker[w].address, generation |-> scan.continues])
        /\ since' = [since EXCEPT !.begun = @ \cup {w}]
        /\ UNCHANGED place
  /\ UNCHANGED <<server, cards, created, devices, request>>

\* SIGN_IN_GAP after the last start.
GapPasses ==
  /\ scan.early
  /\ scan' = [scan EXCEPT !.early = FALSE]
  /\ UNCHANGED <<server, place, worker, cards, created, devices, request, since>>

\* (a plausible bug: those begun before a Continue count as well)
CountsAny(w) == TRUE
Counts(w) == worker[w].generation = scan.continues

\* _failed: a line, and the pause once there are enough since the last Continue.
Failed(w) ==
  /\ worker[w].at = "signing"
  /\ LET failures == IF Counts(w) THEN scan.failures + 1 ELSE scan.failures
         enough == Counts(w) /\ failures >= Limit /\ scan.phase = "running"
     IN  scan' = [scan EXCEPT !.signingIn = @ - 1, !.failures = failures,
                              !.phase = IF enough THEN "paused" ELSE @]
  /\ Goes(w, [at |-> "idle"])
  /\ place' = [place EXCEPT ![worker[w].address] = "line"]
  /\ since' = [begun |-> since.begun \ {w},
               failed |-> since.failed
                            \cup (IF w \in since.begun THEN {worker[w].address} ELSE {})]
  /\ UNCHANGED <<server, cards, created, devices, request>>

\* _detected and _add_line: a card; or a refused host key, a timeout, an error, an unsupported one.
SignInEnds(w) ==
  /\ worker[w].at = "signing"
  /\ scan' = [scan EXCEPT !.signingIn = @ - 1]
  /\ \/ /\ place' = [place EXCEPT ![worker[w].address] = "card"]
        /\ cards' = cards \cup {<<server.serial, worker[w].address>>}
     \/ /\ place' = [place EXCEPT ![worker[w].address] = "line"]
        /\ UNCHANGED cards
  /\ Goes(w, [at |-> "idle"])
  /\ since' = [since EXCEPT !.begun = @ \ {w}]
  /\ UNCHANGED <<server, created, devices, request>>

-----------------------------------------------------------------------------
(* Devices created from the cards *)

Asks(r, there) == request' = [request EXCEPT ![r] = there]

\* create(): of the current discovery (which may be replaced before its cards are saved).
CreateBegins(r) ==
  /\ request[r].at = "rest" /\ server.kept
  /\ Asks(r, [at |-> "creating", scan |-> server.serial])
  /\ UNCHANGED <<server, scan, place, worker, cards, created, devices, since>>

\* (a plausible bug: a finding marked only once its device is saved)
ClaimableUnsaved(f) == f \in cards /\ devices[f] = 0
Claimable(f) == f \in cards \ created

\* _create: each card checked and claimed once; then the next, or the request is over.
Claims(r) ==
  /\ request[r].at = "creating"
  /\ \/ \E f \in Findings :
          /\ f[1] = request[r].scan /\ Claimable(f)
          /\ created' = created \cup {f}
          /\ Asks(r, [at |-> "saving", finding |-> f])
     \/ Asks(r, [at |-> "rest"]) /\ UNCHANGED created
  /\ UNCHANGED <<server, scan, place, worker, cards, devices, since>>

\* (a plausible bug: the finding stays marked)
ReleasedNot(f) == created
Released(f) == created \ {f}

\* save_device: saved; refused by a rule (the next card), or an error (the request fails).
Saves(r) ==
  /\ request[r].at = "saving"
  /\ LET f == request[r].finding
         next == [at |-> "creating", scan |-> f[1]]
     IN  \/ devices' = [devices EXCEPT ![f] = @ + 1] /\ Asks(r, next) /\ UNCHANGED created
         \/ created' = Released(f) /\ UNCHANGED devices
            /\ \E there \in {next, [at |-> "rest"]} : Asks(r, there)
  /\ UNCHANGED <<server, scan, place, worker, cards, since>>

-----------------------------------------------------------------------------

Worker(w) ==
  TakesEnd(w) \/ Takes(w) \/ GetsTurn(w) \/ TurnComes(w) \/ Failed(w) \/ SignInEnds(w)
Main == RunBegins \/ ChecksOver \/ RunEnds
Checks(a) == Knocks(a) \/ Knocked(a)
Creates(r) == CreateBegins(r) \/ Claims(r) \/ Saves(r)

Next ==
  \/ Start \/ Expires \/ StopChanges \/ Proceed \/ Cancel \/ GapPasses \/ Main
  \/ \E a \in Addresses : Checks(a)
  \/ \E w \in Workers : Worker(w)
  \/ \E r \in Requests : Creates(r)

Spec == Init /\ [][Next]_vars

\* The threads run and the clock goes on: a sign-in, a port check and a save end (they have timeouts).
Fairness ==
  /\ WF_vars(Main) /\ WF_vars(GapPasses)
  /\ \A a \in Addresses : WF_vars(Checks(a))
  /\ \A w \in Workers : WF_vars(Worker(w))

FairSpec == Spec /\ Fairness

-----------------------------------------------------------------------------
(* Properties *)

\* Every part of the state has its kind of value.
TypeOK ==
  /\ server \in [serial : {0} \cup Scans, kept : BOOLEAN, stopping : BOOLEAN]
  /\ scan \in [phase : Phases, login : BOOLEAN, continues : 0..MaxContinues, failures : Nat,
               signingIn : Nat, early : BOOLEAN, turn : SUBSET Workers, ends : Nat,
               main : {"begin", "checking", "joining", "over"}]
  /\ place \in [Addresses -> Open \cup {"todo", "knocking", "unchecked", "closed"}]
  /\ cards \subseteq Findings /\ created \subseteq Findings /\ devices \in [Findings -> Nat]

SigningIn == {w \in Workers : worker[w].at = "signing"}

\* A scan is paused for wrong passwords of sign-ins begun since the last Continue only, Limit of
\* them; and those under way when it pauses are all that can still be refused: an account is tried
\* with a wrong password at most Limit - 1 times more than there are workers between two Continues.
PauseEarned ==
  /\ scan.phase = "paused" => Cardinality(since.failed) >= Limit
  /\ Cardinality(since.failed) + Cardinality(since.begun) <= Limit - 1 + Cardinality(Workers)

\* A scan that says it has ended is over: every address that was checked and open has its card or
\* its line, no sign-in is under way and none is counted, and the login is gone from memory.
EndedAnswersAll ==
  scan.phase \in Ended =>
    /\ \A a \in Addresses : place[a] \notin {"todo", "knocking", "queued", "taken"}
    /\ SigningIn = {} /\ scan.signingIn = 0 /\ ~scan.login

\* One scan at a time: the threads at work are those of the last one started, which is not replaced
\* before its thread has ended.
OneScan == [][server'.serial # server.serial => scan.main = "over"]_vars

\* A finding becomes at most one device however many requests ask for it, and a finding that is
\* marked as created has its device or a request that is saving it.
CreatedOnce ==
  /\ \A f \in Findings : devices[f] <= 1
  /\ \A f \in created : devices[f] = 1 \/ \E r \in Requests : request[r] = [at |-> "saving", finding |-> f]

\* A scan under way ends or is paused, and a cancelled one ends, whatever the stop and the other
\* workers do.
ScanEnds ==
  /\ (scan.phase = "running") ~> (scan.phase \in Ended \cup {"paused"})
  /\ (scan.phase = "cancelling") ~> (scan.phase \in Ended)

\* A scan that has ended has answered every address, a finding is created once however many requests
\* ask for it, and a scan is not replaced before its thread has ended.
DiscoverySafe == [](TypeOK /\ EndedAnswersAll /\ CreatedOnce) /\ OneScan

-----------------------------------------------------------------------------
(***************************************************************************)
(* Why they hold.  A worker ends only when the queue is empty and nothing  *)
(* can join it any more, and an address that was taken has its worker.     *)
(* While a scan is running fewer than Limit sign-ins have failed since the *)
(* last Continue; once it is paused none begins, and one that fails was    *)
(* counted among those begun.                                              *)
(***************************************************************************)
Threads ==
  [at : {"gone", "unborn", "idle"}] \cup [at : {"queueing", "waiting"}, address : Addresses]
    \cup [at : {"signing"}, address : Addresses, generation : Nat]
Answers ==
  [at : {"rest"}] \cup [at : {"creating"}, scan : Nat] \cup [at : {"saving"}, finding : Findings]
Typed ==
  /\ TypeOK /\ worker \in [Workers -> Threads] /\ request \in [Requests -> Answers]
  /\ since \in [begun : SUBSET Workers, failed : SUBSET Addresses]

Busy(w) == worker[w].at \in {"queueing", "waiting", "signing"}

Staged ==
  /\ server.kept \/ scan.phase \in Ended
  /\ server.kept => server.serial \in Scans
  /\ scan.phase \in Ended <=> scan.main = "over"
  /\ scan.main = "over" => ~scan.login /\ \A w \in Workers : worker[w].at = "gone"
  /\ \A w \in Workers : worker[w].at = "unborn" <=> scan.main = "begin"
  /\ scan.main = "begin" => \A a \in Addresses : place[a] = "todo"
  /\ scan.main \in {"begin", "checking"} => scan.ends = 0
  /\ scan.main \in {"joining", "over"} => \A a \in Addresses : place[a] \notin {"todo", "knocking"}
  /\ \A w \in Workers : worker[w].at = "gone" => scan.main \in {"joining", "over"} /\ Queued = {}

Taken ==
  /\ \A w \in Workers : Busy(w) => place[worker[w].address] = "taken"
  /\ \A w, v \in Workers : Busy(w) /\ Busy(v) /\ worker[w].address = worker[v].address => w = v
  /\ \A a \in Addresses : place[a] = "taken" => \E w \in Workers : Busy(w) /\ worker[w].address = a

Counted ==
  /\ scan.signingIn = Cardinality(SigningIn)
  /\ since.begun = {w \in SigningIn : worker[w].generation = scan.continues}
  /\ \A w \in SigningIn : worker[w].generation <= scan.continues
  /\ scan.failures = Cardinality(since.failed) /\ \A a \in since.failed : place[a] = "line"
  /\ scan.phase = "running" => scan.failures < Limit
  /\ scan.phase = "paused" => scan.failures >= Limit
  /\ Cardinality(since.failed) + Cardinality(since.begun) <= Limit - 1 + Cardinality(Workers)

Made ==
  /\ \A f \in Findings : devices[f] \in {0, 1} /\ (devices[f] = 1 => f \in created)
  /\ \A r \in Requests : request[r].at = "saving" =>
       request[r].finding \in created /\ devices[request[r].finding] = 0
  /\ \A r, q \in Requests :
       request[r].at = "saving" /\ request[q].at = "saving" /\ request[r].finding = request[q].finding => r = q
  /\ \A f \in created : devices[f] = 1 \/ \E r \in Requests : request[r] = [at |-> "saving", finding |-> f]

ScanInv == Typed /\ Staged /\ Taken /\ Counted /\ Made
=============================================================================
