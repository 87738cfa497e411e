# NetRollout in TLA+

NetRollout pushes configuration to network devices over SSH from a web app: one Python
process (Flask, many threads), Redis for what runs and what is signed in, PostgreSQL for
everything kept, nginx in front, and helper scripts on the host. This directory models the
parts of it whose correctness depends on what happens between steps - threads that meet on
a lock, calls that fail halfway, processes that die - model-checks them on small instances,
and proves what matters most for every instance.

Paths below are relative to `src/` (the repository), so the Python package is `src/...`.

## Inventory

| Component (source) | State it keeps | Operations | What is hard | What makes it correct |
|---|---|---|---|---|
| Rollout orchestrator (`src/jobs.py`) | job table, device holds, claims, slots, draining/paused, saves under way; in Redis: queue, a hash per job, two gauges | submit, withdraw, cancel, dispatch, finalise, drain, pause/resume, clear at start | five kinds of threads on one lock, every Redis and Postgres call outside it | a device is pushed to by one rollout; every accepted rollout is recorded once and ends; nothing leaks (slot, hold, gauge); a stop cuts no save |
| Shutdown (`src/webapp/lifecycle.py`) | begun or not | begin, drain, exit | a stop during everything else | at most one; it ends |
| Maintenance, database move, Redis switch (`src/webapp/lifecycle.py`, `src/webapp/db_move.py`, `src/db/move.py`) | idle/waiting/locked, requests under way, the move's status and cancel flag | begin, lock, enter, leave, end; start, cancel, run; switch_redis | requests, rollouts, discoveries and night jobs that may still write when the lock closes; a cancel, an end and a new start that overlap | nothing is written between the lock and the switch; one move at a time and its status is its own |
| Launch and rollback (`src/webapp/blueprints/rollout.py`, `jobs.py`) | none of its own | check, queue one job per platform, cancel those queued; roll back | another launch between its check and its submit; a submit that fails after others were queued | all platforms or none; one rollout per device |
| Rollout engine (`src/rollout/engine.py`) | results per device, cancel flag, the pool | run, push a device, classify, cancelled_results | a cancel while workers start | each device is recorded once, with what was done; a cancelled one was untouched |
| Device session (`src/rollout/session.py`), platforms (`platforms.py`, `detect.py`) | prompt, replies, what is saved | push, late replies, slow commit, finish in a new session | replies after their timeout (not modelled), a session lost while committing | a success is live; what a person must finish is said |
| Evidence and verification (`src/rollout/evidence.py`) | none (pure) | judge commands by replies and the configuration read back | sections, replaced lines, defaults, two commands with one line, changes of others | a verdict never claims more than was seen |
| Live log (`src/rollout/log.py`) | a Redis stream per rollout | append, follow, close | history and channel are two calls; follower and close at once | no line twice; a follower ends |
| Results, reviews (`src/results.py`) | rows in PostgreSQL | decide, decide alike, status in Python and in SQL | two people deciding at once | one decision per device stands; both definitions of a job's status agree |
| Discovery (`src/discovery/`, `src/webapp/discoveries.py`, `blueprints/discovery.py`) | phase, failures since the last Continue, next start, findings, the server's current one | start, run, proceed, cancel, end; claim, save, release a finding | port checks, a few sign-ins, a pause in between; a stop meanwhile; two create requests | a bounded number of wrong passwords between two Continues; it ends; every address has an answer; a finding is created once |
| Host keys (`src/host_keys.py`, `src/rollout/host_keys.py`) | rows per target, the mode | learn, refuse, accept, delete, retry for an HA pair | connections that learn at once, late refusals, a reset meanwhile | the password goes to accepted keys; an acceptance is an admin's, or a first key; retries end |
| Accounts and directories (`src/accounts/`, `blueprints/admin_users.py`, `admin_ldap.py`) | users, servers, group rules in PostgreSQL | create, approve, enable, role, delete, reconnect; sign-in's role from the directory; reset-admin | requests that read first and write later | an administrator is left; an active account has a directory; one account per name |
| Sign-in (`src/accounts/users.py`, `blueprints/auth.py`) | counters in PostgreSQL and Redis, half a sign-in in the session | password, code, enrolment; unlock, disable, 2FA reset | several browsers, an admin, counters at their limits | wrong passwords count; no way around the second factor; a lock holds |
| Sessions (`src/accounts/users.py`, `src/webapp/hooks.py`, `build.py`) | sessions in Redis | read at a request's start, written back at its end; limits; sign out everywhere | overlapping requests of one browser | an ended session stays ended; limits hold |
| Inventory (`src/inventory.py`, its pages) | devices, profiles, links, values, mappings, bindings | save, import, link, bind, delete; global or local | several users on a shared device | own credentials only; no orphans; a bound mapping resolves |
| Port change (`src/access/port.py`, `src/setup/port.py`) | `site.env`, `.env`, the status file, the trial file | request, confirm; next_step, open_trial, trying, close | two processes, two files, a clock, crashes | the port kept is one that was confirmed; the server stays reachable |
| Host name, certificates (`src/access/`) | settings, `site.env`, the certs folder, nginx | save, upload, make, upkeep, apply, undo | four places, several admins, a verdict that comes late | all or nothing; a certificate with its own key; an organisation's stays |
| Backups (`src/backup/`) | lock file, archives, last outcome, keys | lock, take-over, make, prune, restore; schedule | processes that die, a lock that looks stale | a slot is run once; retention deletes only what it may; the database's key is at hand; one works at a time |
| Retention (`src/db/retention.py`, `db/settings.py`, `rollout/log.py`) | settings, last run, rows, log files | save settings; nightly clean-up; prune logs | saves that overlap, restarts, clean-ups that fail | rules between settings hold; records and logs expire together |
| Connections (`src/db/connections.py`) | clients, engine | sessions, reload | one retry, lost answers | - |
| Other settings, encryption, audit, LDAP's protocol, schema, pages, setup scripts, deploy files | rows, files | - | one transaction or one script each | left to tests |

The interactions: a web request submits or cancels in the orchestrator and is counted by
Maintenance; the orchestrator pushes job ids to Redis and its dispatcher thread pops them; a
rollout's thread runs the engine, which opens device sessions and writes the live log, and
finalises into PostgreSQL and Redis; Shutdown drains the orchestrator; DatabaseMove pauses
it and waits for `idle()`; discoveries ask both whether to stop; an engine's devices are judged
by the evidence, and what it can't prove waits for reviews; every connection is checked against
the host keys; a hostname and a port share `site.env`. `PROJECT.json` lists every
component with its status and every hazard at its line.

## What is modelled now

### `RolloutJobs` - `src/jobs.py`

Variables follow the code: `jobs`, `held`, `claimed` (a set `started_at`), `flagged` (the
cancel flag), `draining`, `paused`, `slots`, `saving`; Redis' `queue`, `hash`, `pending`,
`active`; and where each thread is: `submit` (one submit per rollout), `disp` (the
dispatcher and the entry it took), `work` (the thread that ends a claimed rollout: its own
for one that ran, the canceller's or the drain's for one that never started), `marking`
(cancels about to write the hash), `drain` and `drainJobs`. `ran` and `recorded` are history.

**Grain.** A block under `RolloutOrchestrator._lock` is one action, and so is each `JobStore`
call and each save; between two actions every other thread may act. So `submit()` is
`SubmitClaim`, `SubmitAdd`, `SubmitDescribe`, `SubmitEnqueue`, or on an error `WithdrawRemove`,
`WithdrawUnqueue`, `WithdrawGone`; the dispatcher is `DispatchPop`, `DispatchSlot`,
`DispatchClaim`, `DispatchMark`, `DispatchLaunch`; a rollout's end is `EngineEnds` (or
`CancelQueued`), `Finalize`, `SaveResults`, `Finish`; `drain()` is `DrainBegin` to
`DrainExit`.

**A Redis call** ends in one of three ways (`REDIS_UNAVAILABLE` and the client's single retry
in `src/db/connections.py`): answered; refused, with nothing executed; or lost, executed
while the caller gets an error. Faults are constants of an instance (`Faults`, at most
`MaxFaults` of them): an outage, a lost reply, a failed metadata write, a failure while a
queued rollout is cancelled, no thread to be had, a drain's wait running out, a crash.

**Abstractions.** A `JobStore` call is executed as a whole or not at all. In the code most of them
are several commands sent one after the other (`src/jobs.py:166-228`): a fault, a crash or a reader
between two of them is not modelled, and no property is about what is between them. A BLPOP that finds nothing is no step. The two checks `submit()`
makes before its locked block are merged into it: they change nothing and refuse nothing more.
A retried RPUSH that is executed twice is left out. The drain's deadline and its stop-now
request both mean that it stops waiting, at any moment (`DrainWaited`). The engine is a step
that ends. A save always ends in PostgreSQL or in the file that stands in for it; that its
tries may write rows twice is not modelled (Plan, item 2). Each rollout is submitted once.

### `DeviceHolds` - what that promises about devices

Two variables, who holds a device and who pushes; all of a rollout's devices are taken in one
step when all are free, let go of in one step when it does not push, and pushed to only while
held. `RolloutJobs` implements it (`ImplementsDeviceHolds`, with `holder <- held` and
`pushing` the rollouts whose `work` is "running"): checked by TLC and proved.

### `DatabaseMove` - `src/webapp/lifecycle.py`, `src/webapp/db_move.py`, `src/db/move.py`

An admin moves NetRollout to another PostgreSQL while people work. `Maintenance` (`state`,
`underWay`) counts the requests it lets in, refuses rollouts while a move waits, and locks once
no request is under way and the orchestrator is idle; the move's thread then backs the database
up, restores it into the target, swaps the connection, writes `runtime.env`, and ends
maintenance. Next to it a live switch of Redis pauses rollouts on its own.

| Code | Model |
|---|---|
| `maintenance_gate`, `maintenance_request_ended` | `Enter`, `Leave`; `request[r]` is where a request is in its view |
| `DatabaseMove.start` | `CheckTarget`, `BeginRefused`, `Begin`, `Announce`, `RequestWrites`, `Launch` |
| `cancel` | `CancelLooks`, `CancelSets` |
| `_run` | `Locks` or `LocksNot`; `GivesUp` or `Sleeps`; `Copying`; `Ends`, `Audits`, `Reports` |
| `move.copy` | `Archives`, `Switching`; `CopyFails`, `RestoreFails` |
| `switch_to`, `reload_db`, `undo` | `Swaps`, `SwapFails`, `Keeps`, `KeepFails` |
| `switch_redis` | `RedisReads` to `RedisResumes` |
| `submit`, `_finalize`, `save`, seen from here | `Submit`, `RolloutEnds`, `RolloutSaved`: a rollout is in the table, being saved, or over |
| discoveries' ends, host keys, nightly jobs | `UncountedAsks`, `UncountedWrites`: whether they may is asked once, they write later |

**Grain.** A block under `Maintenance._lock` is one action, and so is a transaction; what the
code reads and acts on without a lock takes two (`cancel`, `switch_redis`, the target compared
in `start`, the uncounted writers). **Abstractions.** A database is the set of rows written to
it, so a copy is right when it has every row of its source; a deadline is passed or not
(`overdue`); a backup, a restore or a switch fails at any moment, for any reason; the checks of
a target before the move are left out, since they change nothing here.

### `WriteGate` - what the gate promises

Users come in while the database is not the move's, go, and the move has the database to itself
from the moment nobody is inside to its end. `DatabaseMove` implements it (`ImplementsWriteGate`:
`inside` is the requests let in and the rollouts in the table or being saved, `alone` is the
lock): checked by TLC and proved.

### `Discovery`

The scan's main thread (port checks, then the sign-in threads, then the join), each address's
place, each worker's turn, the pause; the server's current discovery and what stops it; the
requests that create devices. `request` and `cards` outlive the scan they come from, as in the
code, where a page may still create devices of a discovery that is no longer the last.

| Code | Model |
|---|---|
| `Discoveries.start`, `current`, `_stop_when` | `Start`, `Expires`, `StopChanges` |
| `DiscoveryScan._run`, `_check` | `Main` (`RunBegins`, `ChecksOver`, `RunEnds`), `Checks` |
| `_sign_ins`, `_wait_turn`, `_failed`, `_detected` | `Worker` |
| `proceed`, `cancel`, `_set_phase` | `Proceed`, `Cancel` |
| create, claim, release | `Creates` with its claim, save and release |

Left out: what a target list expands to, what is detected, the events' text.

### `RolloutEngine`

One rollout: a worker per device with its conversation, the cancel flag, the collection. `box` is
the device itself: commands live, saved, in the candidate, a commit under way. Every call to the
device may be answered, refused, cut or left without an answer. A commit that takes too long is looked
at again from a new session, and the verification compares with what the device has.

How a platform keeps a change decides who learns that it was not kept: `"save"`, whose refusal is only
logged, unless a verification in the push's own session compares the saved configuration; `"command"`,
Gaia, which tells its save state (`unsaved()`); `"auto"` and `"manual"`, FortiOS by its `cfg-save` (manual: saved
before the finish, not in a new session); `"commit"`. Replies are not modelled as text, so neither is a
late one nor its draining (`_late_reply`): what a command's answer is, is a choice at its own step.

### `LiveLog`

`append` is two calls to Redis (the history, then the channel) by several workers; `follow()`
subscribes, reads the history, then the channel, and asks for the job's end at its timeouts;
`close` publishes the end and lets the history expire.

### `Evidence`

The judge as one action per command and per pass, with pure operators for what is compared
(`Claim`, `ReplacedBy`, `Conflicting`, `Absent`, ...). The device is modelled beside it, so that
the verdicts can be compared with what really happened: it takes or refuses each command, replies
or not, leaves a section for a command found only outside, may print a line first or last and
doesn't print a default; somebody else may add lines. Words are members of a vocabulary: which ones
abbreviate another, and which ones a removal's word names by a hyphen (`names()`), are two relations.

### `Reviews`, `Launch`

`Reviews`: decisions as transactions (READ COMMITTED) that read, check, write changed columns,
and wait for another's row lock; `JobStatus` and `JobStatusCondition` are the two definitions of a
job's status, one from the Python function, one from the SQL. `Launch`: the checks and then one
submit per platform, cancels of those queued when one fails, rollbacks; the orchestrator is
reduced to what `RolloutJobs` shows of it. A submit claims its targets; raises with nothing queued; or
raises with its job queued, RPUSH's answer being lost, and withdraws it: a job that runs already runs on,
holding no device ("astray").

### `HostKeyStore`

Runs connect, several times, to whatever answers at one target. What a run checks against is read
when its policy is made; what it saw is written in two steps (is there an accepted key? - insert).
Admins accept, refuse, delete and reset meanwhile; a database move blocks the writes.

### `Backups`

Scheduler and scripts on one folder: the lock file with its token, its staleness and the take-over
(look, compare, remove, make - a step each); a backup with its partial file; pruning; a restore with the
key handed over before the commit and stored after; the schedule's slots with retries. The lock goes before
the pruning and the pruning before the status, and each may fail. A kill leaves what it leaves. A lock
looks stale when nobody refreshes it: its holder was killed, could not write the file it had made or start
the heartbeat, or its heartbeat could not set the file's time and ended. A commit may go through
with its answer lost; the restore then takes its key back.

### `Accounts`, `Inventory`

Each has one database, a function from keys to rows, and requests that open a transaction, read,
decide and write later only the columns they changed. That is how the code's sessions behave under
READ COMMITTED, and it is where requests overtake each other. Foreign keys and cascades are those
of `src/db/tables.py`. "Runs alone" in a property means that nothing was committed between its
reading and its commit. A row is told by its id: one deleted and made again under the same name is
another row, so in `Accounts` an update of the old one is refused (`lost`), and in `Inventory` an id that a
transaction remembers is not used again.

### `SignIn`, `Sessions`

`SignIn`: one local account, several browsers, an admin, a clock that lets locks run out. The count
of wrong passwords is changed in the database itself, the rest of the row is written from what was
read. `Sessions`: requests read their session when they begin and write all of it back when they
end, if it changed; a scan of `end_for` goes key by key.

### `Retention`

A clock in ticks with a day's 03:00; saves of settings that plan with what they read; the nightly
clean-up with its status file, its retry and restarts; the pruning of log files.

### `PortTrial`, `SiteAccess`

`PortTrial`: the app and the host's helper share `site.env`, `.env`, the trial's compose file and
the status; each file is one step, the helper may die between any two and is run again; the
port may be set by hand meanwhile. `SiteAccess`: saving a host name, uploading and making a
certificate and the weekly upkeep, each over the settings, `site.env`, the certs folder and
nginx's verdict, with its undo; steps that fail are a bounded number of faults. A write that fails is
put back from the snapshot, and the putting back may fail after any of the files; the upkeep has no
snapshot, so what it wrote stays. A week passes only while a transition is on, and an upkeep begins only
when one is over (it writes nothing otherwise). `settings.update` may be refused by a rule (backed out), or the
database may not answer (not backed out); an undo puts back what the save itself replaced.

**Grain of all of these.** A block under a lock, a transaction's commit, one Redis call, one file's
replacement is one step. What a component asks of another is a choice over the answers that one
can give.

## What is checked

`MCRolloutJobs` gives the devices: `j1` on `t1`, `j2` on `t1` and `t2`, `j3` on `t2`. Two
rollouts suffice for every race between two, on one device (`j1`, `j2`) or on none in common
(`j1`, `j3`). One slot makes the second rollout wait for it; two slots let both run. One fault
in a behaviour strikes at any step, and what follows it is the code's own recovery; one restart
shows what a previous process leaves behind. `MCDatabaseMove` adds the symmetry of requests and
moves (not used under fairness). Two requests let two admins overlap, two moves let one's end meet
another's begin, and go there and back.

`Push`, `Results`, `Site` and `UserAccess` each hold several components that share no state:
the variable `part` says which one a behaviour is about, the others' variables hold nothing, so
the state space is the sum of theirs and not the product. Each component has one property there
(`EvidenceSafe`, `AccessSafe`, ...): the conjunction, for the behaviours of that part, of the module's
type invariant with its named invariants and action properties, which the comments in the module
state one by one. `MCPush`, `MCResults`, `MCSite` and `MCAccounts` only give them their values, so
what is proved of these is proved of what the runs check; `DiscoverySafe` (`Discovery`) is such a
conjunction too. Beside the mutant that `PROJECT.json` names for the whole, the modules keep a mutated
operator for nearly every part (marked "a plausible bug"), each of which was seen to break its own part.

Deadlock is not checked (`CHECK_DEADLOCK FALSE`): when every rollout has been answered and
has ended, every move is over and every row written, every scan, review, launch or request is over
and the bounds are reached, or the process is down for good, nothing is left to do.

| Run | Instance | Shows |
|---|---|---|
| `stop` | 2 rollouts, 1 slot, cancels, a stop, a crash and a restart | types; each rollout recorded once; gauges right at rest, after a restart too; a patient exit loses nothing |
| `outages` | 2 rollouts on one device, 2 slots, cancels, pauses; an outage, a failed metadata write or a crash and a restart | one push per device and the refinement of `DeviceHolds`; each rollout recorded once; results survive; a failed submit leaves nothing; a paused idle orchestrator stays quiet (what a database move relies on) |
| `faults` | 2 rollouts on one device, every kind of fault, a restart | holds and table agree, slots and saves are accounted for, whatever strikes |
| `live` | 2 rollouts, a stop, an outage, under fairness | accepted rollouts end, stops end, devices are freed |
| `push_reply` | small | the finding below |
| `move_gate` | 2 requests, a rollout, 2 moves, Redis switches, an uncounted nightly writer, crashes | types; no row of a request or rollout is lost; no database is copied onto itself; a failed move leaves the app where `runtime.env` says; the refinement of `WriteGate` |
| `move_live` | 2 requests, a rollout, 2 moves, crashes, a failed way back, under fairness | every move ends, rollouts are accepted again |
| `discovery` | 2 scans, 2 addresses, 2 workers, a limit of 1, 1 Continue, 2 create requests, under fairness | pauses are earned, ended scans have answered, one scan at a time, a finding is created once, scans end |
| `push` | engine: 2 devices, verified (one saves, one commits) or not (Gaia and FortiOS saving by hand; FortiOS saving by itself and one that commits), 2 commands, 2 workers, 2 commit checks. log: 2 writers with 2 lines, 1 follower. Under fairness | success is real, an unsaved change is told where the code looks at the save, a cancelled device is untouched, the run ends; no line twice, only overtaken ones lost, followers end |
| `results` | evidence: every push of up to 3 of 8 commands. reviews: 3 devices, 2 people. launch: 3 requests over 3 platforms, 2 faults. host keys: 2 runs, 3 keys of 2 types. backups: a script, the scheduler, 3 moments of two periods, a kill, an error, 3 works | the judge claims no more than was seen; one decision stands and the lists agree; all or none, but for a job whose submit lost its answer; passwords and acceptances; slots, retention, keys, the lock |
| `accounts` | accounts: 4 names of which two differ in capitals, a directory with a rule and its user or one it lost, 2 at a time, 3 requests. sign-in: 2 browsers, limits of 2 and 3, 7 steps. sessions: 2 people, 3 sids, 2 requests, limits of 2 and 3 ticks. inventory: 2 users, 2 devices, 3 profiles, 2 requests. retention: 1 rollout, 2 saves, 3 days of 2 ticks | an administrator is left, names are single; the second factor and locks; ended sessions; own credentials, no orphans; rules, expiry and logs |
| `site` | port: 2 ports, 2 requests, a death or an edit by hand. access: 2 admins and the upkeep, 3 changes, an upload for one of 2 names, a failed write or a refused site, a week | reachable, confirmed, offered ports are open; pairs are whole until a write or a putting back stops halfway, changes whole or put back, an organisation's certificate stays |

**Why these bounds.** The hazards are races of two and faults followed by the code's own recovery:
two actors, one fault or kill, and what is needed to come round once (a second scan, a second
request after a rejected one, a second night). Limits such as five wrong passwords or ten sign-in
failures are set to the least number at which reaching, passing and resetting them differ. Three
commands give the judge one line claimed twice, a section and what follows it. Every mutant of
`PROJECT.json` - plausible bugs, one for each property at least - is found within the bounds.

**Fairness.** Weak fairness of every thread that has begun something: a request that is being
answered, the dispatcher, a rollout's thread, the drain, a move's thread; Redis comes back, and
a deadline passes. That is what the operating system's scheduling and the timeouts give (engine
and sessions time out, drain and move have deadlines). Nobody is obliged to submit, cancel,
stop, start or move; nor need a rollout end for a move to end. In `Discovery` the main thread, the
port checks and the sign-in threads go on, and the gap between two sign-ins passes; nobody need
continue or cancel. In `RolloutEngine` each worker goes on (calls to a device time out) and the
collection and the end happen; in `LiveLog` a job that is ending ends, a worker publishes what it
has begun to, and a follower reads (its waits have timeouts). No strong fairness is used.

### Findings

`push_reply`: RPUSH executed without an answer: the withdrawn rollout runs without its devices,
and a second one pushes to the same device. Its text and lines are in `PROJECT.json`.

### What the models also showed

Differences between the code and what its comments say, or consequences worth knowing, left without
a run of their own to keep the suite small; the steps are all in the modules. Where a definition is
named, adding it to the configuration shows the counterexample (those of the composed runs are at
the end of `Push`, `Results`, `Site` and `UserAccess`).

**Orchestrator, shutdown, database move**

- A cancel between the dispatcher's claim and `store.started()` leaves the hash "active" while the
  job is cancelling, though `RolloutJob.status` says it is "what its Redis hash says"
  (`src/jobs.py:788`; `StatusAgrees`).
- Two Redis switches at once, or one across the end of a move, leave rollouts refused with nothing
  under way (`src/webapp/db_move.py:255`; `PauseEnds`).
- A cancel answered with yes as the last rollout ends does not stop the move: the lock is tried
  before the flag is looked at (`src/webapp/db_move.py:178`; `CancelHeeded`).
- A thread that is neither a request nor a rollout asks, a move locks and copies, the thread writes:
  its row stays in the database that is left (`src/host_keys.py:193`, `src/webapp/discoveries.py:173`,
  the nightly jobs; `NoRowLost`).
- A stop (or cancel) that takes a rollout whose `submit()` is still writing leaves the hash of a
  job that is over (`src/jobs.py:816` and `:632`).
- BLPOP executed without an answer: the entry is gone and the rollout waits until it is
  cancelled (`src/jobs.py:743`; `"reply_lost"` added to the run `live`).
- No thread for a rollout ends the dispatcher, with a slot (`src/jobs.py:792`; `disp.at` becomes
  "dead" in the run `faults`).
- A rollout cancelled while it is being submitted, whose metadata write then fails, is taken off
  the pending gauge twice (`src/jobs.py:655`; `GaugesAgree` in the run `outages`).
- A move reports its outcome after maintenance has ended, into the status of a second move begun
  in between (`src/webapp/db_move.py:212`).
- Rollouts resumed by something else start between the check of `switch_redis` and the switch
  (`src/webapp/db_move.py:258`).
- When the way back from a failed switch fails too, the app stays on the copy with
  `runtime.env` naming the old database (`src/db/connections.py:404`; `FailedMoveStays` with
  `"undo"` among the faults).

**Rollouts**

- One platform's cancel that raises leaves the launches of the others queued
  (`src/webapp/blueprints/rollout.py:199`).
- The finding `push_reply` reaches a launch too: a submit whose RPUSH was executed without an answer
  raises, the launch answers that nothing was started, and its job runs on (`AllOrNoneAtAll`).
- A device that refuses to save leaves a change that the next reboot takes, and nobody is told, unless
  it is Gaia or the push was verified in its own session (`src/rollout/session.py:583`). FortiOS with a
  manual `cfg-save` is not saved at all when a new session finishes its push
  (`src/rollout/platforms.py:202`). `UnsavedTold` has both.
- `push()` says that `applied` is False "when nothing took effect"; with a commit that failed after
  its commands were live, or a session lost at the wrong moment, commands are live
  (`FailedUntouched` of `RolloutEngine`).
- Two workers' lines may reach the channel in the other order than the history: a follower drops
  the overtaken one, although `follow()` says "none lost or repeated" (`NoneLost` of `LiveLog`).
- The judge leaves a removed line among the "other changes" when a default or a one-word prefix
  replaced it; a header that the device refuses without a word misplaces the commands after it; the
  branches for an unknown section are never reached (`src/rollout/evidence.py`). Of a removal that takes
  several lines away only the first is the command's, the others are shown as another person's.
- A decision for all alike, of another person at the same time, may leave a device's status beside
  the outcome that was audited last (`StatusIsOutcome`).
- Two connections may learn two first keys of a target; a run whose key an admin removes learns it
  again at its next connection (`src/host_keys.py:196`).

**Discovery**

- When another discovery has started before the end's bookkeeping, the ended one's audit row is
  dropped (`src/webapp/discoveries.py:163`).
- No thread for a scan leaves it running for ever; no other one starts (`discoveries.py:134`).
- A paused scan does not ask whether to stop until somebody continues it: a stop or a move finds it
  waiting (`src/discovery/scan.py:366`).

**Accounts, sessions, inventory**

- Two requests at once take the last two administrators away, each seeing the other's
  (`src/accounts/users.py:346`; `NeverNoAdmin`). Switching a directory off, and wrong passwords that
  disable an administrator, don't ask at all.
- An Enable that overlaps its directory's deletion leaves an active account without a directory; two
  first sign-ins with different capitals make two accounts.
- A sign-in that read an expired lock lifts a new one; of two enrolments at once the second
  replaces the first's authenticator; an account disabled before its code is refused, and the
  sign-in audited as a success.
- A request in flight writes back the session that a sign-out ended (`AllEnded`).
- A link, value or binding saved while an admin makes its device local stays as the invisible orphan
  that `src/inventory.py:747` means to avoid; an owner's edit that read the device before still
  writes it.

**Server**

- A helper that dies after opening a trial leaves its entry in `COMPOSE_FILE`; undoing a save puts an
  old, rolled-back request back, and it is tried again; the two processes' updates of `site.env` may
  lose one another's keys (`InUseIsPublished`).
- The watcher may look at half a pair, and its verdict undoes a valid change; two rejected changes
  leave the first's files; an upload is checked against a host name read before the lock; a database
  error in saving the setting is not backed out (`HostnamesAgree`).
- "Every change runs under one lock, from a snapshot of those files - all or nothing"
  (`src/access/certs.py:370`) is not so of the upkeep: a write of `drop_expired` that fails leaves one
  certificate with another's key, or without its marker (`:333`). Likewise "Nothing was changed"
  (`:483`) when the putting back fails too (`PairAlwaysWhole`).
- Two processes that find one stale lock may both work in the folder: the second's unlink removes the
  lock that the first has just made, for taking over is three steps on a file name
  (`src/backup/archive.py:428`; `OneAtATime`). A stale lock takes no kill: one that was made and could not
  be written stays (`:387`), and a heartbeat that fails once ends (`:406`) while its work goes on. Until a lock
  goes stale one works at a time (`OneWorks`, proved).
- A restore killed after its commit, and a second one after it, leave the database with a key that is
  nowhere; so does a commit whose answer is lost, for which the key handed over is removed again
  (`src/backup/archive.py:624`; `KeyAlwaysAtHand`).
- A scheduled backup whose pruning fails is noted as failed though it is in the folder
  (`src/backup/schedule.py:102`). A backup may hold a certificate and another's key.
- Overlapping saves of two admins can break a rule between the retention settings; logs are pruned
  with the default of 60 days when the database can't be read (`src/rollout/log.py:145`), against the
  rule's own message; with equal days a log goes up to a day before its record; a rollout that runs
  longer than its retention loses its metadata when it ends.

## What is proved

Eight modules of proofs, one per group of components: `RolloutJobs_proofs` over
`DeviceHolds_proofs`, `DatabaseMove_proofs`, `Push_proofs`, `Results_proofs`, `Discovery_proofs`,
`Site_proofs` and `UserAccess_proofs`. What a theorem states is what a run checks, for every value of the constants;
the named assumptions on them say that sets are finite where the code counts them and that limits
are numbers, at least 1 where the code's settings are. Hypotheses beyond these are stated as
`ASSUME` in the theorem. An inductive invariant stands with the component it is about, after the
comment "Why ... hold"; TLC checked each on the component's instance before it was proved.

### `RolloutJobs`

For any set of rollouts and devices, any assignment of devices, any number of slots, faults and
restarts.

- `TypeCorrect`: `Spec => []TypeOK`. `slots \in Nat`
  and "a dispatcher past its pop has a rollout" are the parts that are not shapes.
- `DevicesFollowTable`: holds and table agree, under every fault. The induction is on
  `TableHolds`, which adds that a rollout not yet submitted is not in the table: otherwise
  taking its devices could take those of a rollout in the table.
- `DeviceInvariant`, `OnePush`: with `"reply_lost"` not among the faults (finding `push_reply` is why),
  `DeviceInv` is inductive. It says why one push per device holds: only accepted rollouts are
  in the queue (`EntriesAccepted`), a rollout is claimed once (`ClaimedOnce`), so whoever
  could take a rollout out of the table before its push ends has already lost the race for it.
- `Implementation`: every step of `RolloutJobs` is one of `DeviceHolds` or leaves holds and
  pushes alone; `PushesExclude`: `DeviceHolds` excludes two pushes to one device.
- `TakenAndRecordedOnce`, under every fault: one thread takes a rollout to its end (`TakenOnce`) and
  only what that thread did is recorded (`RecordedByOne`). `EachRecordedOnce` adds that one
  that is over was recorded, with `"log"` not among the faults: a
  cancellation whose save fails on the way is the one that leaves nothing behind. Its second half
  needs `StandingStays` (a rollout stays in the table until its results are taken to be saved).
- `FailedNeverRuns`: a submit that raised left no row, device, or entry that can start, unless a
  reply was lost (`WithdrawnLeft`, with `DeviceInv`).
- `CountersKept`, under every fault: every slot is free, the dispatcher's or a running rollout's;
  `saving` is the number of saves under way. The lemmas `OneMore` and `OneLess` carry the sums.
- `MoveFindsQuiet`, under every fault: an idle paused orchestrator stays so.
- `StopLosesNothing`: a stop in a behaviour that no fault struck (its patience running out is one)
  exits with everything recorded. `DrainClaimsAll` says that a drain at its last wait has seen the
  table empty and nobody able to fill it, `NothingDropped` that what has left the table is recorded.
- `GaugesCorrect`: unless a write fails (`WritesGoThrough`: outages, lost replies, failed metadata
  or cancellation are not among the faults; crashes, threads that cannot be had and impatient stops
  may be), `pending` and `active` are right at rest. `GaugesAgree` speaks only of
  quiet moments, so the induction is on `GaugesCount`, which says what they count in mid-step:
  a rollout ended by a drain or a cancel before its own `submit()` reached `store.add()` is taken off
  the gauge before it is put on, and is owed meanwhile (`Owed`).

### `DatabaseMove`

For any finite set of requests, any rollouts, moves, rows, databases and uncounted threads.

- `GateHolds`, `TypeCorrect`, `Implementation`: under every fault. The invariant is that
  `underWay` is the number of requests inside (`CountRight`) and that nobody is inside while
  locked (`LockedAlone`); from it every step is one of `WriteGate` or leaves it alone.
- `MoveInvariant`, `RowsKept`, `FailureStays`: with `"undo"` not among the faults (the way back's failure, under
  "What the models also showed", is why). The invariant adds that at most one move is between its begin and the end of
  maintenance, and the lock is its own (`OneMove`); where sessions go at each point of a switch
  (`ConnectionFollows`); and that counted rows are in the database in use, in the backup once it
  is made and in the target once it is restored (`RowsFollow`). Those writing are counted, so
  none writes between backup and switch: that is where `LockedAlone` is needed.
- `TargetIsAnother`: a move never copies a database onto itself, although the target was
  compared before the move began. The reason: whoever has checked a
  target is inside, so no other move can lock, copy and switch before the begin (`Aimed`).

### `Push`: `RolloutEngine` and `LiveLog`

Any devices, plans, commands, workers, writers and readers (`RunAssumption`, `LinesAssumption`).

- `SuccessesAreReal`, `PushIsSafe`, from `RunInv`: what a device holds where its worker is
  (`Held`: nothing is live before the first command, nor on a platform with a commit before it; only
  a session's first commit can be under way; what commits or saves by itself has nothing unsaved), and
  that a device is judged with all commands sent and, where the code looks at the save
  (`SaveLookedAt`), with its change saved or a person told (`Told`). Elsewhere nothing of the kind is claimed.
- `FollowersMissNothing`, from `FollowInv`: a subscription takes numbers in the channel's order with
  DONE last (`Ordered`); what is skipped was shown or overtaken (`Skipped`); a reader whose
  subscription was in effect before it read the history has every number still to come in its
  buffer, or will have it there (`Shown`).

### `Results`: `Reviews`, `Launch`, `HostKeyStore`, `Backups`

- `LaunchesAllOrNone` (platforms of a launch differ, there is one at least), from `LaunchInv`: those
  queued and those cancelled are always the first ones of the launch's order (`InOrder`), and a job that
  runs astray is the one after them. With the cancel that raises as a step of its own ("broken"), all or
  none is about launches it spares; the job whose submit lost its answer is excepted by name.
- `HostKeysKept` (finitely many keys), from `StoreInv`: runs share nothing but the stored keys; a
  run that learns knew none and has seen one key (`LearnsOne`); each retry is for an accepted key not tried
  before, so retries are fewer than keys (`TriesAnew`); the password is with known keys or with the
  one being learnt (`SignedInKnown`).
- `ReviewsKept` (finitely many people), from `ReviewInv`: what a transaction has read of
  an undecided row is as it read it, or somebody else has decided since (`InHand`), a row lock has
  one holder (`OneWriter`), and a row decided by one person alone has that decision's status
  (`AloneSettled`). The proof that the Python and the SQL status agree is by the sets of statuses in a job.
- `BackupsKept` (`Keep`, `Period` at least 1), from `BackupInv`: while the scheduler
  makes a backup there is none since its scheduled time (`SlotOpen`: what retention deleted is older
  than what is in the folder); until a restore is cut off (killed after its commit, or its answer
  lost) one worker restores, and the key it
  handed over is the database's once it may have committed (`KeyKept`). That one worker at a time is
  past the lock (`OneWorks`) is from `LockInv`: works differ in their tokens (`TokensDiffer`); until a lock
  goes stale the one there is has the token of whoever is past it, and nobody compares or unlinks
  (`LockKept`); and before a process is killed or leaves its lock to nobody, the one there is has a heartbeat, so it
  does not go stale (`Refreshed`). After that it is not true (`OneAtATime` above).

### `Discovery`

`PausesEarned`, `DiscoveriesKept`, for any limit, finite workers and addresses, from `ScanInv`: an address that was
taken has its worker and only one (`Taken`); a worker ends only when the queue is empty and
nothing can join it (`Staged`); while a scan runs fewer than `Limit` sign-ins have failed since the
last Continue, and one that fails after a pause was among those begun before it (`Counted`, by the
cardinalities of both sets); a finding that is being saved has one request (`Made`).

### `Site`: `PortTrial`, `SiteAccess`

Any ports, requests and mishaps (`PortsAssumption`: ports are positive numbers, as 0 stands for
none); any admins, names, uploads, changes, weeks and faults (`NamesAssumption`: "org",
which stands for an organisation, is no host name, an upload's certificate covers some of the names,
and the upkeep is no admin).

- `PortIsSafe`, from `PortInv`: nginx isn't recreated while a trial runs, so the port of `.env`, the one
  served and the one tried stay open, and `.env` and the status name one port between trials (`Open`); a request's number has one port wherever it is copied, in `site.env`, in an update read
  and not yet written, in the helper (`OnePort`); a confirmation, written or on its way, stands for
  a browser that came through (`ConfirmedByOne`); `Stepping` says what the helper does where it is.
  A helper that dies between two steps starts from any state of this invariant, which is
  why it speaks of the files rather than of the helper's course.
- `AccessIsSafe`, from `AccessInv`: the folder is one whole writing while the lock is free - unless a write of
  the upkeep or a putting back has stopped halfway (`count.torn`) - and at its holder's stage otherwise (`Holding`); a certificate's number is that of the change that made it
  (`Numbered`); what a change took as its snapshot is whole, and it makes of an organisation's
  certificate either that one or a person's (`MadeOfWhole`); while an admin's change is the only one,
  the saved name, nginx's and the files are where its stage says, although the upkeep may reissue in
  between (`Alone`): an undo tells its own certificate from the upkeep's by its number.

### `UserAccess`: `SignIn`, `Sessions`, `Retention`, `Inventory`, `Accounts`

Any finite set of browsers and limits of at least 1, that of the name not above that of the account
(`LimitsAssumption`); sessions numbered as they are made (`SessionsAssumption`, `GoneAssumption`);
settings with a least value and defaults that keep the rules (`RetentionAssumption`); databases to
start from that keep the schema's types and foreign keys (`InventoryAssumption`, and
`AccountsAssumption`: finitely many usernames, and the factory admin is there as the setup seeds it).

- `SignInKept`, from `SignInInv`: the count in the database is never below the wrong passwords that
  counted, and one that reaches the limit closes the account, so that afterwards only those who had read
  the row before can add to it: the count and their number together stay within a bound
  (`CountsBounded`, by the cardinality of `MayCount`; likewise the name's failures by `WillStop`). Whoever
  is at the second factor has proved the password, and whoever is about to store an
  authenticator read the account without one (`HalfWay`).
- `SessionsKept`, from `StayInv`: neither what is stored of a session nor what any request has in
  hand of it is later than what a person last did in it (`Stored`, `InHand`), so a request that
  overtakes another and stores an older copy only shortens it. Of a session that was ended, `EndedStays`
  is inductive beside `EndedMade` (a new id is none of those ended).
- `RetentionKept`, from `RetentionInv`: a plan keeps each rule that held of what it read
  (`SavesKeep`), so only a save that was overtaken can break one; metadata goes only when
  it is older than the least of all settings, so before any results that came in time (`RowsFollow`).
- `InventoryKept`, from `OwnInv`, for any number of requests at the same time. A commit merges columns
  into rows that others changed since, so the invariant is about transactions: each changes its
  user's rows only, but for a delete and a device made local (`Mine`), links to its user's profiles
  (`LinksOwn`), and what it read of a profile's owner still holds, as an id is not used again
  while anyone remembers it (`Remembered`). Deleting and linking at once then end in a
  refusal or a cascade, never in a foreign link (`OwnCredentials`). What a request does when
  it runs alone is settled when it opens (`WhenAlone`): one lemma per operation puts what it writes by tables
  (`Writes`), and `OwnAlone` shows that the commit of a database nobody changed is exactly that.
- `AccountsKept`, from `AccountInv`, for any usernames, capitals, directories, rules and requests at the
  same time. A merged row is one that the table may hold because no request changes an account's kind
  (`KindsStay`) and a row that a transaction has read is there and of that kind, or lost to it
  (`Remembers`): two columns of two requests then never make a local account with a directory, and
  nothing ever makes the factory admin's role another one. A deleted directory is taken off its users by
  the cascade (`CommittedDatabase`). That the last administrator stays, that an active account has a
  directory and that a name is single are said of what a request writes against what it read
  (`WhenAlone`); one lemma per operation shows them when it opens, and `AccountAlone` that the commit of
  a database nobody changed is a refusal or exactly what was written. Of requests at the same time they
  are not true, and not claimed (`NeverNoAdmin` above).

### How the proofs are laid out, and what they showed

Each step lemma has one step per action; where an action is long, a lemma of its own. A frame lemma
first says which actions touch the variables concerned, the others are one case. The composed modules
have one more level: a behaviour's `part` never changes, so each component's invariant holds under
its own `Next`, and its variables stay as they were under the others'.

`Status` of `RolloutEngine` was a CASE whose guards overlap, which leaves open in TLA+ which arm is
taken; the proof of `SuccessIsReal` failed on it, and it is now a chain in `classify`'s order. `WrongCode`
of `SignIn` names the next count, which it wrote with one `@` inside another's row. `SUBSET Devices \ {{}}`
(`Inventory`, `Retention`) is read by TLC and by the prover with different precedence; both are in parentheses now.
The invariant of `Accounts` was not inductive: the model told rows by their names, so a reconnection that
had read an account could commit into another one made since under that name, and leave a local account
with a directory, which TLC confirmed from another first database. In the code a row is told by its id
(`src/db/tables.py:61`), so an update of a row that is gone is refused. A transaction of the model now
knows the rows it has read and lost (`lost`), and the run starts from that database too.

### What is only model-checked

- Liveness (`AcceptedEnds`, `DrainEnds`, `DevicesFreed`, `MoveEnds`, `RolloutsResume`, `ScanEnds`,
  `PartEnds`) and ENABLED, which these provers do not reach.
- `EvidenceSafe`: `Evidence` selects from sequences of lines with operators as arguments (`Hits`,
  `Gone`, `Without`), which these provers cannot instantiate.

## Plan

Done: all modules above; proofs of what is safe in `RolloutJobs`, `DatabaseMove`, `Push`,
`Results` (but `Evidence`), `Discovery`, `Site` and `UserAccess`.
Next:

1. The tries inside one save (`src/jobs.py:506`), as an extension of `SaveResults`.
2. The queue over two Redis servers (`src/webapp/db_move.py:258`).

Abstract specifications worth stating: a change that happens as a whole or not at all (`Launch`,
`SiteAccess`), a port trial without its two processes (`PortTrial`).

## Not modelled

What `PROJECT.json` lists as such and the plan does not name: pages and their JavaScript,
parsing and rendering, cryptography, migrations, one-time setup scripts, dashboards. They are
pure I/O, generated, or a single transaction each.
