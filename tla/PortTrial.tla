----------------------------- MODULE PortTrial -----------------------------
(***************************************************************************)
(* A new HTTPS port is tried next to the current one and kept only when an *)
(* admin's browser came through it.  Two processes share files: the app    *)
(* (src/src/access/port.py) writes requests and confirmations in site.env, *)
(* the port helper on the host (src/src/setup/port.py, run step by step by *)
(* the apply command) writes .env, the trial's compose file, its answer in *)
(* apply-status.json, and the port in use in site.env.                     *)
(*                                                                         *)
(* site_env.update reads, changes and replaces the whole file under a lock *)
(* of its own process: an update of the other process in between is lost.  *)
(* The helper may die at any step and is run again.                        *)
(***************************************************************************)
EXTENDS Naturals, FiniteSets

CONSTANTS
  Ports,        \* HTTPS ports, numbers above 0
  MaxRequests,  \* how many requests the app writes
  MaxMishaps    \* how often the helper dies, or the port is set by hand

VARIABLES
  env,        \* .env: [port, entry]: the published port; the port of the trial file that COMPOSE_FILE lists (0: none)
  site,       \* site.env: [inUse, request, id, confirmed] (0: the key isn't there)
  status,     \* apply-status.json: [id, state, port, trying, late]; late: the deadline has passed
  published,  \* the ports nginx listens on; {}: it isn't running
  saved,      \* the port in System Settings
  saver,      \* the app's save of a port: [at, before]
  confirmer,  \* an admin's confirmation: [at, id]
  update,     \* the app's site_env.update under way: [by, read, write]
  helper,     \* the apply command: [at, id, port, outcome, read]
  count,      \* [requests, mishaps]
  reached     \* the <<id, port>> that a browser has confirmed

vars == <<env, site, status, published, saved, saver, confirmer, update, helper, count, reached>>

None == [inUse |-> 0, request |-> 0, id |-> 0, confirmed |-> 0]
NoUpdate == [by |-> "nobody", read |-> None, write |-> None]
IdleHelper == [at |-> "idle", id |-> 0, port |-> 0, outcome |-> "none", read |-> None]

\* Installed on a port, and a helper has said it is here (ready).
Init ==
  \E p \in Ports :
    /\ env = [port |-> p, entry |-> 0]
    /\ site = [None EXCEPT !.inUse = p]
    /\ status = [id |-> 0, state |-> "applied", port |-> p, trying |-> 0, late |-> FALSE]
    /\ published = {p} /\ saved = p
    /\ saver = [at |-> "idle", before |-> None] /\ confirmer = [at |-> "idle", id |-> 0]
    /\ update = NoUpdate /\ helper = IdleHelper
    /\ count = [requests |-> 0, mishaps |-> 0] /\ reached = {}

-----------------------------------------------------------------------------
(* The app *)

\* serving_port: a trial that is confirmed counts; else the port of the helper's answer
ServingPort ==
  IF status.state = "trying" /\ status.id = site.confirmed THEN status.trying ELSE status.port

\* site_env.update: the keys in change, over what is read now
Starts(who, change) ==
  /\ update.by = "nobody"
  /\ update' = [by |-> who, read |-> site, write |-> [k \in DOMAIN site |-> IF k \in DOMAIN change THEN change[k]
                                                                            ELSE site[k]]]
Replaces(who) ==
  /\ update.by = who
  /\ site' = update.write /\ update' = NoUpdate

\* request_port: Save, Reset, or Try again
Requests(p) ==
  /\ saver.at = "idle" /\ count.requests < MaxRequests
  /\ count' = [count EXCEPT !.requests = @ + 1]
  /\ Starts("saver", [request |-> p, id |-> count.requests + 1, confirmed |-> 0])
  /\ saver' = [at |-> "requesting", before |-> site]
  /\ saved' = p
  /\ UNCHANGED <<env, site, status, published, confirmer, helper, reached>>

Requested ==
  /\ saver.at = "requesting" /\ Replaces("saver")
  /\ saver' = [saver EXCEPT !.at = "requested"]
  /\ UNCHANGED <<env, status, published, saved, confirmer, helper, count, reached>>

\* The save is over; or nginx rejected the host name saved with it, and the port goes back too.
SaveStands ==
  /\ saver.at = "requested"
  /\ saver' = [saver EXCEPT !.at = "idle"]
  /\ UNCHANGED <<env, site, status, published, saved, confirmer, update, helper, count, reached>>

UndoesRequest ==
  /\ saver.at = "requested"
  /\ Starts("saver", [request |-> saver.before.request, id |-> saver.before.id,
                      confirmed |-> saver.before.confirmed])
  /\ saver' = [saver EXCEPT !.at = "undoing"]
  /\ UNCHANGED <<env, site, status, published, saved, confirmer, helper, count, reached>>

Undone ==
  /\ saver.at = "undoing" /\ Replaces("saver")
  /\ saver' = [saver EXCEPT !.at = "idle"]
  /\ UNCHANGED <<env, status, published, saved, confirmer, helper, count, reached>>

\* confirm: the trial that runs, reached through its own port and in time
Confirmable(port) == status.state = "trying" /\ status.trying = port /\ ~status.late

Confirms(port) ==
  /\ confirmer.at = "idle" /\ port \in published
  /\ Confirmable(port)
  /\ confirmer' = [at |-> "checked", id |-> status.id]
  /\ reached' = reached \cup {<<status.id, port>>}
  /\ UNCHANGED <<env, site, status, published, saved, saver, update, helper, count>>

ConfirmReads ==
  /\ confirmer.at = "checked" /\ Starts("confirmer", [confirmed |-> confirmer.id])
  /\ confirmer' = [confirmer EXCEPT !.at = "writing"]
  /\ UNCHANGED <<env, site, status, published, saved, saver, helper, count, reached>>

ConfirmWrites ==
  /\ confirmer.at = "writing" /\ Replaces("confirmer")
  /\ confirmer' = [confirmer EXCEPT !.at = "confirmed"]
  /\ UNCHANGED <<env, status, published, saved, saver, helper, count, reached>>

\* confirm_port: nginx's redirects follow the confirmed port at once
SiteReads ==
  /\ confirmer.at = "confirmed" /\ Starts("confirmer", [inUse |-> ServingPort])
  /\ confirmer' = [confirmer EXCEPT !.at = "following"]
  /\ UNCHANGED <<env, site, status, published, saved, saver, helper, count, reached>>

SiteWrites ==
  /\ confirmer.at = "following" /\ Replaces("confirmer")
  /\ confirmer' = [confirmer EXCEPT !.at = "idle"]
  /\ UNCHANGED <<env, status, published, saved, saver, helper, count, reached>>

\* state: what System Settings shows of the port (waiting and no_helper_answer differ by the clock only)
PageState ==
  IF site.id # 0 /\ status.id = site.id /\ status.state = "trying"
    THEN IF site.confirmed = site.id THEN "confirming" ELSE "trying"
  ELSE IF site.id # 0 /\ status.id = site.id /\ status.state \in {"rolled_back", "failed"} THEN status.state
  ELSE IF saved = ServingPort THEN "applied" ELSE "waiting"

-----------------------------------------------------------------------------
(* The helper: one at a time, under the lock of the apply command *)

Does(there) == helper' = [helper EXCEPT !.at = there]
Answers(id, state, trying) ==
  status' = [id |-> id, state |-> state, port |-> env.port, trying |-> trying, late |-> FALSE]

Runs ==
  /\ helper.at = "idle" /\ Does("next")
  /\ UNCHANGED <<env, site, status, published, saved, saver, confirmer, update, count, reached>>

Closes(outcome, id) == helper' = [helper EXCEPT !.at = "close", !.outcome = outcome, !.id = id]

\* (a plausible bug: any confirmation counts for the trial that runs)
ConfirmedAny == site.confirmed # 0
Confirmed == site.confirmed = site.id

\* next_step, while a trial runs
NextOfTrial ==
  /\ helper.at = "next" /\ status.state = "trying"
  /\ IF status.id # site.id THEN Closes("rollback", status.id)
     ELSE IF Confirmed THEN Closes("keep", site.id)
     ELSE IF status.late THEN Closes("rollback", site.id)
     ELSE helper' = [helper EXCEPT !.at = "wait", !.id = site.id]
  /\ UNCHANGED <<env, site, status, published, saved, saver, confirmer, update, count, reached>>

\* next_step, with no trial: nothing to do, answered here, or a port to try
NextOfRequest ==
  /\ helper.at = "next" /\ status.state # "trying"
  /\ \/ /\ site.id = 0 \/ status.id = site.id
        /\ helper' = IdleHelper /\ UNCHANGED status
     \/ /\ site.id # 0 /\ status.id # site.id /\ site.request = env.port
        /\ Answers(site.id, "applied", 0) /\ helper' = IdleHelper
     \/ \* another program listens on it
        /\ site.id # 0 /\ status.id # site.id /\ site.request \notin published \cup {env.port}
        /\ Answers(site.id, "failed", 0) /\ helper' = IdleHelper
     \/ /\ site.id # 0 /\ status.id # site.id /\ site.request # env.port
        /\ helper' = [helper EXCEPT !.at = "open", !.id = site.id, !.port = site.request]
        /\ UNCHANGED status
  /\ UNCHANGED <<env, site, published, saved, saver, confirmer, update, count, reached>>

\* (a plausible bug: the trial's compose file replaces the port instead of adding one)
TrialPortsInstead == IF env.entry # 0 THEN {env.entry} ELSE {env.port}
\* open_trial's file adds a port to the one published
TrialPorts == {env.port} \cup ({env.entry} \ {0})

\* (a plausible bug: the trial's clock starts before nginx has opened the port)
AfterOpenClock == "trying"
AfterOpen == "nginx_trial"

OpensTrial ==
  /\ helper.at = "open"
  /\ \/ env' = [env EXCEPT !.entry = helper.port] /\ Does(AfterOpen)
     \/ UNCHANGED env /\ Closes("failed", helper.id)
  /\ UNCHANGED <<site, status, published, saved, saver, confirmer, update, count, reached>>

\* nginx is recreated with the trial's port, or does not start with it
RecreatesForTrial ==
  /\ helper.at = "nginx_trial"
  /\ \E ok \in BOOLEAN :
       /\ published' = IF ok THEN TrialPorts ELSE {}
       /\ IF ok THEN Does("trying") ELSE Closes("failed", helper.id)
  /\ UNCHANGED <<env, site, status, saved, saver, confirmer, update, count, reached>>

\* trying: the clock starts
TrialRuns ==
  /\ helper.at = "trying"
  /\ \/ Answers(helper.id, "trying", helper.port) /\ Does("next")
     \/ UNCHANGED status /\ Closes("failed", helper.id)
  /\ UNCHANGED <<env, site, published, saved, saver, confirmer, update, count, reached>>

\* The command's own stopwatch: it sees the confirmation, or closes the trial after a last look.
Waits ==
  /\ helper.at = "wait"
  /\ IF site.confirmed = helper.id THEN Does("next")
     ELSE helper' = [helper EXCEPT !.at = "close", !.outcome = "timed_out"]
  /\ UNCHANGED <<env, site, status, published, saved, saver, confirmer, update, count, reached>>

Late ==
  /\ status.state = "trying" /\ ~status.late
  /\ status' = [status EXCEPT !.late = TRUE]
  /\ UNCHANGED <<env, site, published, saved, saver, confirmer, update, helper, count, reached>>

Kept == helper.outcome = "keep"

\* close, file by file: .env's port, site.env (read, then written), the trial's file and entry, the answer
CloseEnv ==
  /\ helper.at = "close"
  /\ env' = IF Kept THEN [env EXCEPT !.port = status.trying] ELSE env
  /\ Does(IF Kept THEN "close_reads" ELSE "close_entry")
  /\ UNCHANGED <<site, status, published, saved, saver, confirmer, update, count, reached>>

CloseReads ==
  /\ helper.at = "close_reads"
  /\ helper' = [helper EXCEPT !.at = "close_site", !.read = site]
  /\ UNCHANGED <<env, site, status, published, saved, saver, confirmer, update, count, reached>>

CloseSite ==
  /\ helper.at = "close_site"
  /\ site' = [helper.read EXCEPT !.inUse = status.trying]
  /\ helper' = [helper EXCEPT !.at = "close_entry", !.read = None]
  /\ UNCHANGED <<env, status, published, saved, saver, confirmer, update, count, reached>>

CloseEntry ==
  /\ helper.at = "close_entry"
  /\ env' = [env EXCEPT !.entry = 0]
  /\ Does("close_status")
  /\ UNCHANGED <<site, status, published, saved, saver, confirmer, update, count, reached>>

CloseStatus ==
  /\ helper.at = "close_status"
  /\ Answers(helper.id, IF Kept THEN "applied" ELSE IF helper.outcome = "failed" THEN "failed" ELSE "rolled_back", 0)
  /\ Does("nginx")
  /\ UNCHANGED <<env, site, published, saved, saver, confirmer, update, count, reached>>

\* nginx is recreated (when that fails, it keeps the ports it has); then anything newer, unless the clock ran out
Recreates ==
  /\ helper.at = "nginx"
  /\ published' \in {published, TrialPorts}
  /\ helper' = IF helper.outcome \in {"timed_out", "failed"} THEN IdleHelper ELSE [IdleHelper EXCEPT !.at = "next"]
  /\ UNCHANGED <<env, site, status, saved, saver, confirmer, update, count, reached>>

Dies ==
  /\ helper.at \notin {"idle", "hand_reads", "hand_site", "hand_status", "hand_start"}
  /\ count.mishaps < MaxMishaps
  /\ count' = [count EXCEPT !.mishaps = @ + 1]
  /\ helper' = IdleHelper
  /\ UNCHANGED <<env, site, status, published, saved, saver, confirmer, update, reached>>

-----------------------------------------------------------------------------
(* The port set by hand (set_by_hand, save_setting), under the same lock; the command isn't killed halfway *)

ByHand(port) ==
  /\ helper.at = "idle" /\ count.mishaps < MaxMishaps
  /\ status.state # "trying" /\ env.entry = 0 /\ port # env.port
  /\ count' = [count EXCEPT !.mishaps = @ + 1]
  /\ env' = [env EXCEPT !.port = port]
  /\ helper' = [helper EXCEPT !.at = "hand_reads"]
  /\ UNCHANGED <<site, status, published, saved, saver, confirmer, update, reached>>

HandReads ==
  /\ helper.at = "hand_reads"
  /\ helper' = [helper EXCEPT !.at = "hand_site", !.read = site]
  /\ UNCHANGED <<env, site, status, published, saved, saver, confirmer, update, count, reached>>

HandSite ==
  /\ helper.at = "hand_site"
  /\ site' = [None EXCEPT !.inUse = env.port]
  /\ helper' = [helper EXCEPT !.at = "hand_status", !.read = None]
  /\ UNCHANGED <<env, status, published, saved, saver, confirmer, update, count, reached>>

HandStatus ==
  /\ helper.at = "hand_status"
  /\ Answers(0, "applied", 0) /\ saved' = env.port
  /\ Does("hand_start")
  /\ UNCHANGED <<env, site, published, saver, confirmer, update, count, reached>>

\* Started on it; or any step failed, and the previous port is put back in all three.
HandStarts ==
  /\ helper.at = "hand_start"
  /\ \/ published' = TrialPorts /\ UNCHANGED env /\ helper' = IdleHelper
     \/ \E p \in published : p # env.port /\ env' = [env EXCEPT !.port = p] /\ UNCHANGED published /\ Does("hand_reads")
  /\ UNCHANGED <<site, status, saved, saver, confirmer, update, count, reached>>

-----------------------------------------------------------------------------

App ==
  \/ Requested \/ SaveStands \/ UndoesRequest \/ Undone
  \/ ConfirmReads \/ ConfirmWrites \/ SiteReads \/ SiteWrites
  \/ \E p \in Ports : Requests(p) \/ Confirms(p)

Helper ==
  \/ Runs \/ NextOfTrial \/ NextOfRequest \/ OpensTrial \/ RecreatesForTrial \/ TrialRuns \/ Waits
  \/ CloseEnv \/ CloseReads \/ CloseSite \/ CloseEntry \/ CloseStatus \/ Recreates \/ Dies
  \/ HandReads \/ HandSite \/ HandStatus \/ HandStarts
  \/ \E p \in Ports : ByHand(p)

Next == App \/ Helper \/ Late

Spec == Init /\ [][Next]_vars

-----------------------------------------------------------------------------
(* Properties: of states, and of steps (those with primes) *)

\* The files name ports, and an answer of the helper is about a request that was made.
TypeOK ==
  /\ env.port \in Ports /\ env.entry \in Ports \cup {0}
  /\ status.state \in {"applied", "trying", "rolled_back", "failed"} /\ status.port \in Ports
  /\ status.id \in 0..count.requests /\ site.id \in 0..count.requests
  /\ published \subseteq Ports

ByHandNow == helper.at \in {"hand_reads", "hand_site", "hand_status", "hand_start"}

\* The helper publishes another port only when a browser came through that very port in that very
\* trial, whatever is requested, put back or confirmed late meanwhile and wherever the helper dies.
KeptIsConfirmed ==
  env'.port # env.port /\ ~ByHandNow /\ helper.at # "idle" => <<helper.id, env'.port>> \in reached

\* Nobody is locked out: nginx always listens on the port .env publishes and on the port that the
\* app's addresses and redirects name (serving_port), through trials, rollbacks and dead helpers
\* (unless Docker didn't start it at all).
Reachable == ByHandNow \/ published = {} \/ {env.port, ServingPort} \subseteq published

\* While the page offers a port to confirm, or says that it is being kept, that port is open.
OfferedIsOpen == published # {} /\ PageState \in {"trying", "confirming"} => status.trying \in published

(***************************************************************************)
(* Why they hold.  nginx is not recreated while a trial runs, so that the  *)
(* port served, the one of .env and the one tried stay open until it is    *)
(* over, and .env names the port served when none runs.  A request has one *)
(* port, however often its number is copied, put back or tried again; and  *)
(* the confirmation of a number stands for a browser that came through it. *)
(***************************************************************************)
Numbers == 0..count.requests
PortOrNone == Ports \cup {0}
SiteFiles == [inUse : PortOrNone, request : PortOrNone, id : Numbers, confirmed : Numbers]
Closing == {"close", "close_reads", "close_site", "close_entry", "close_status"}
ByHandSteps == {"hand_reads", "hand_site", "hand_status", "hand_start"}
Places == {"idle", "next", "open", "nginx_trial", "trying", "wait", "nginx"} \cup Closing \cup ByHandSteps
Statuses == [id : Numbers, state : {"applied", "trying", "rolled_back", "failed"}, port : Ports,
             trying : PortOrNone, late : BOOLEAN]
Helpers == [at : Places, id : Numbers, port : PortOrNone,
            outcome : {"none", "keep", "rollback", "timed_out", "failed"}, read : SiteFiles]
Typed ==
  /\ env \in [port : Ports, entry : PortOrNone] /\ site \in SiteFiles /\ status \in Statuses
  /\ published \subseteq Ports /\ reached \subseteq (Numbers \ {0}) \X Ports /\ helper \in Helpers
  /\ saver \in [at : {"idle", "requesting", "requested", "undoing"}, before : SiteFiles]
  /\ confirmer \in [at : {"idle", "checked", "writing", "confirmed", "following"}, id : Numbers]
  /\ update \in [by : {"nobody", "saver", "confirmer"}, read : SiteFiles, write : SiteFiles]
  /\ count \in [requests : Nat, mishaps : Nat]

Trying == status.state = "trying"

\* What the helper is doing where it is.
Stepping ==
  /\ helper.at \in {"open", "nginx_trial", "trying", "nginx"} \cup ByHandSteps => ~Trying
  /\ helper.at \in {"open", "nginx_trial", "trying"} => helper.id # 0 /\ helper.port \in Ports
  /\ helper.at = "nginx_trial" => env.entry = helper.port
  /\ helper.at = "trying" => published = {env.port, helper.port}
  /\ helper.at = "wait" => Trying /\ helper.id = status.id
  /\ helper.at \in Closing => (Trying <=> helper.outcome # "failed")
  /\ helper.at \in Closing /\ Kept => helper.id = status.id /\ <<status.id, status.trying>> \in reached
  /\ helper.at \in {"close_reads", "close_site"} => Kept

\* The ports in the files and those that nginx listens on.
Open ==
  /\ Trying => status.id # 0 /\ status.trying \in Ports
  /\ Trying /\ published # {} => {status.port, status.trying} \subseteq published
  /\ ~ByHandNow /\ published # {} => env.port \in published
  /\ ~Trying /\ helper.at \notin {"hand_reads", "hand_site", "hand_status"} => status.port = env.port

\* A request's number and its port, wherever the two are kept.
Copies == {site, update.write, saver.before, helper.read}
Opening == IF helper.at \in {"open", "nginx_trial", "trying"} THEN {<<helper.id, helper.port>>} ELSE {}
Tried == IF Trying THEN {<<status.id, status.trying>>} ELSE {}
Numbered == {<<0, 0>>} \cup {<<s.id, s.request>> : s \in Copies} \cup Opening \cup Tried \cup reached
OnePort == \A x, y \in Numbered : x[1] = y[1] => x[2] = y[2]

CameThrough == {x[1] : x \in reached}
ConfirmedByOne ==
  /\ \A s \in Copies : s.confirmed \in {0} \cup CameThrough /\ (s.id # 0 => s.request \in Ports)
  /\ confirmer.at # "idle" => confirmer.id \in CameThrough

PortInv == Typed /\ Stepping /\ Open /\ OnePort /\ ConfirmedByOne

\* "NETROLLOUT_HTTPS_PORT: the HTTPS port in use (published)", what nginx redirects to: once no trial
\* runs and nobody is writing, it is the port that .env publishes.
InUseIsPublished ==
  helper.at = "idle" /\ status.state # "trying" /\ update.by = "nobody" /\ confirmer.at = "idle"
    => site.inUse = env.port
=============================================================================
