---------------------------- MODULE DatabaseMove ----------------------------
(***************************************************************************)
(* Moving the database while people work: Maintenance and its request gate *)
(* (src/src/webapp/lifecycle.py), DatabaseMove and the live Redis switch   *)
(* (src/src/webapp/db_move.py), the copy (src/src/db/move.py) and the      *)
(* switch of the connection (src/src/db/connections.py).                   *)
(*                                                                         *)
(* The rollouts are those of RolloutJobs seen from here: in the job table, *)
(* being saved, or gone, and refused while paused.                         *)
(*                                                                         *)
(* Grain.  A block under a lock is one step, and so is a transaction of    *)
(* the database; a method that reads something and acts on it without a    *)
(* lock takes two.  A database is the set of rows written to it.           *)
(***************************************************************************)
EXTENDS Integers, FiniteSets

CONSTANTS
  Requests,     \* the requests the server answers at the same time
  Rollouts,     \* bound: the rollouts people start
  Moves,        \* bound: the moves people start
  Rows,         \* bound: the rows written
  Uncounted,    \* threads that write without being requests or rollouts
  Nightly,      \* those of them that ask moving() before they begin
  Databases,
  Bundled,      \* the database of a new installation
  Views,        \* what is requested: "rollout", "move", "cancel", "redis"
  Faults        \* what may go wrong besides a copy or a switch that fails

(***************************************************************************)
(* "crash"  the process dies and is started again                          *)
(* "undo"   the way back after a failed switch fails too                   *)
(***************************************************************************)
ASSUME RequestsAssumption == IsFiniteSet(Requests)
ASSUME DatabasesAssumption == Bundled \in Databases
ASSUME NightlyAssumption == Nightly \subseteq Uncounted
ASSUME UsersAssumption == Requests \cap Rollouts = {}

VARIABLES
  \* Maintenance and the orchestrator's pause
  state,       \* Maintenance._state
  underWay,    \* Maintenance._under_way
  paused,      \* RolloutOrchestrator._paused
  \* DatabaseMove
  status,      \* _status.state
  cancelled,   \* _cancel
  overdue,     \* the deadline of _status has passed
  \* threads
  request,     \* where each request is in its view
  rollout,     \* where each rollout is
  step,        \* where the thread of each move is
  target,      \* the database each move goes to
  outcome,     \* what each move will say of itself
  archive,     \* the rows in each move's backup
  source,      \* the database each move left when it switched
  asked,       \* the uncounted threads that were told they may write
  \* the databases
  connection,  \* PostgresConnection.config: where sessions go
  runtimeEnv,  \* the database runtime.env names: where a new process goes
  data,        \* the rows of each database
  written      \* row -> "not" yet, "counted" or "uncounted": by whom

gate == <<state, underWay>>
mover == <<status, cancelled, overdue>>
plan == <<target, outcome, archive, source>>
moves == <<step, target, outcome, archive, source>>
store == <<connection, runtimeEnv, data, written>>
vars == <<state, underWay, paused, status, cancelled, overdue, request, rollout, step,
          target, outcome, archive, source, asked, connection, runtimeEnv, data, written>>

Ended == {"done", "failed", "cancelled"}
MoveStates == {"idle", "waiting", "copying", "switching"} \cup Ended
MoveSteps == {"unborn", "begun", "announced", "waiting", "looking", "locked", "copying",
              "archived", "switching", "swapped", "ending", "ended", "audited", "over"}

Out == [at |-> "out"]
In == [at |-> "in"]
RequestStates ==
  [at : {"out", "in", "cancelling"}]
    \cup [at : {"checked"}, to : Databases]
    \cup [at : {"starting"}, move : Moves]
    \cup [at : {"pausing", "counting", "replacing", "resuming"}, was_paused : BOOLEAN]

-----------------------------------------------------------------------------
(* What the locks and the counts say *)

Counted == {r \in Requests : request[r].at # "out"}
ActiveRollouts == {j \in Rollouts : rollout[j] = "active"}
UnsavedRollouts == {j \in Rollouts : rollout[j] = "saving"}

\* (a bug of the kind: as before the saves were counted)
IdleByTable == ActiveRollouts = {}

\* RolloutOrchestrator.idle()
Idle == ActiveRollouts \cup UnsavedRollouts = {}

\* RolloutOrchestrator.counts() is all zero
NoneCounted == ActiveRollouts = {}

Active == state # "idle"
WritesBlockedNever == FALSE
WritesBlocked == state = "locked"

\* (a bug of the kind: a lock that waits for the rollouts only)
LockableAnyTime == state = "waiting" /\ Idle

\* Maintenance.lock() would answer True
Lockable == state = "waiting" /\ underWay = 0 /\ Idle

NewRow(x, kind) ==
  /\ written[x] = "not"
  /\ written' = [written EXCEPT ![x] = kind]
  /\ data' = [data EXCEPT ![connection] = @ \cup {x}]
  /\ UNCHANGED <<connection, runtimeEnv>>

NoRowLeft == \A x \in Rows : written[x] # "not"

-----------------------------------------------------------------------------
Init ==
  /\ state = "idle" /\ underWay = 0 /\ paused = FALSE
  /\ status = "idle" /\ cancelled = FALSE /\ overdue = FALSE
  /\ request = [r \in Requests |-> Out]
  /\ rollout = [j \in Rollouts |-> "unborn"]
  /\ step = [m \in Moves |-> "unborn"]
  /\ target = [m \in Moves |-> Bundled]
  /\ outcome = [m \in Moves |-> "failed"]
  /\ archive = [m \in Moves |-> {}]
  /\ source = [m \in Moves |-> Bundled]
  /\ asked = {}
  /\ connection = Bundled /\ runtimeEnv = Bundled
  /\ data = [d \in Databases |-> {}]
  /\ written = [x \in Rows |-> "not"]

-----------------------------------------------------------------------------
(* Requests: the gate, and what the views do *)

Goes(r, here, there) ==
  /\ request[r] = here
  /\ request' = [request EXCEPT ![r] = there]

\* (a bug of the kind: let in while locked all the same, but not counted)
EnterUncounted(r) ==
  /\ Goes(r, Out, In)
  /\ underWay' = IF WritesBlocked THEN underWay ELSE underWay + 1
  /\ UNCHANGED <<state, paused, mover, rollout, moves, asked, store>>

\* maintenance_gate: let in and counted, unless locked
Enter(r) ==
  /\ ~WritesBlocked
  /\ Goes(r, Out, In)
  /\ underWay' = underWay + 1
  /\ UNCHANGED <<state, paused, mover, rollout, moves, asked, store>>

\* maintenance_request_ended: answered or failed
Leave(r) ==
  /\ Goes(r, In, Out)
  /\ underWay' = underWay - 1
  /\ UNCHANGED <<state, paused, mover, rollout, moves, asked, store>>

\* A view writes; so does the start of a move (database.move_started).
RequestWrites(r) ==
  /\ request[r] = In \/ \E m \in Moves : request[r] = [at |-> "starting", move |-> m]
  /\ \E x \in Rows : NewRow(x, "counted")
  /\ UNCHANGED <<gate, paused, mover, request, rollout, moves, asked>>

\* submit(): refused while paused, else in the table - one step under its lock
Submit(r, j) ==
  /\ "rollout" \in Views
  /\ request[r] = In
  /\ ~paused
  /\ rollout[j] = "unborn"
  /\ rollout' = [rollout EXCEPT ![j] = "active"]
  /\ UNCHANGED <<gate, paused, mover, request, moves, asked, store>>

\* start(): the target is another database, and passes its check
CheckTarget(r) ==
  /\ "move" \in Views
  /\ \E d \in Databases \ {connection} : Goes(r, In, [at |-> "checked", to |-> d])
  /\ UNCHANGED <<gate, paused, mover, rollout, moves, asked, store>>

BeginRefused(r) ==
  /\ Active
  /\ \E d \in Databases : Goes(r, [at |-> "checked", to |-> d], In)
  /\ UNCHANGED <<gate, paused, mover, rollout, moves, asked, store>>

\* Maintenance.begin()
Begin(r, m) ==
  /\ ~Active
  /\ step[m] = "unborn"
  /\ \E d \in Databases :
       /\ Goes(r, [at |-> "checked", to |-> d], [at |-> "starting", move |-> m])
       /\ target' = [target EXCEPT ![m] = d]
  /\ state' = "waiting"
  /\ paused' = TRUE
  /\ step' = [step EXCEPT ![m] = "begun"]
  /\ UNCHANGED <<underWay, mover, rollout, outcome, archive, source, asked, store>>

\* The cancel flag cleared, a status of its own.
Announce(r, m) ==
  /\ request[r] = [at |-> "starting", move |-> m]
  /\ step[m] = "begun"
  /\ cancelled' = FALSE
  /\ status' = "waiting"
  /\ overdue' = FALSE
  /\ step' = [step EXCEPT ![m] = "announced"]
  /\ UNCHANGED <<gate, paused, request, rollout, plan, asked, store>>

Launch(r, m) ==
  /\ step[m] = "announced"
  /\ Goes(r, [at |-> "starting", move |-> m], In)
  /\ step' = [step EXCEPT ![m] = "waiting"]
  /\ UNCHANGED <<gate, paused, mover, rollout, plan, asked, store>>

\* cancel(): the status is read, the flag set after it, without a lock
CancelLooks(r) ==
  /\ "cancel" \in Views
  /\ status = "waiting"
  /\ Goes(r, In, [at |-> "cancelling"])
  /\ UNCHANGED <<gate, paused, mover, rollout, moves, asked, store>>

CancelSets(r) ==
  /\ Goes(r, [at |-> "cancelling"], In)
  /\ cancelled' = TRUE
  /\ UNCHANGED <<gate, paused, status, overdue, rollout, moves, asked, store>>

-----------------------------------------------------------------------------
(* switch_redis: the pause is remembered, set, and put back *)

At(here, b) == [at |-> here, was_paused |-> b]

RedisReads(r) ==
  /\ "redis" \in Views
  /\ Goes(r, In, At("pausing", paused))
  /\ UNCHANGED <<gate, paused, mover, rollout, moves, asked, store>>

RedisPauses(r) ==
  /\ \E b \in BOOLEAN : Goes(r, At("pausing", b), At("counting", b))
  /\ paused' = TRUE
  /\ UNCHANGED <<gate, mover, rollout, moves, asked, store>>

RedisRefused(r) ==
  /\ ~NoneCounted
  /\ \E b \in BOOLEAN : Goes(r, At("counting", b), At("resuming", b))
  /\ UNCHANGED <<gate, paused, mover, rollout, moves, asked, store>>

RedisGoes(r) ==
  /\ NoneCounted
  /\ \E b \in BOOLEAN : Goes(r, At("counting", b), At("replacing", b))
  /\ UNCHANGED <<gate, paused, mover, rollout, moves, asked, store>>

\* The client replaced and the leftovers cleared, or the new server silent.
RedisReplaced(r) ==
  /\ \E b \in BOOLEAN : Goes(r, At("replacing", b), At("resuming", b))
  /\ UNCHANGED <<gate, paused, mover, rollout, moves, asked, store>>

\* What the switch leaves behind of the pause.
PauseAfter(was_paused) == IF was_paused THEN paused ELSE FALSE

RedisResumes(r) ==
  /\ \E b \in BOOLEAN : Goes(r, At("resuming", b), In) /\ paused' = PauseAfter(b)
  /\ UNCHANGED <<gate, mover, rollout, moves, asked, store>>

-----------------------------------------------------------------------------
(* Rollouts *)

\* _finalize: out of the table and counted as being saved, in one step
RolloutEnds(j) ==
  /\ rollout[j] = "active"
  /\ rollout' = [rollout EXCEPT ![j] = "saving"]
  /\ UNCHANGED <<gate, paused, mover, request, moves, asked, store>>

\* ResultRecorder.save: into the database, or into a file of its own
RolloutSaved(j) ==
  /\ rollout[j] = "saving"
  /\ rollout' = [rollout EXCEPT ![j] = "over"]
  /\ (\E x \in Rows : NewRow(x, "counted")) \/ UNCHANGED store
  /\ UNCHANGED <<gate, paused, mover, request, moves, asked>>

-----------------------------------------------------------------------------
(* Threads nobody counts: a discovery, host keys, the nightly jobs *)

MayWrite(u) == IF u \in Nightly THEN ~Active ELSE ~WritesBlocked

UncountedAsks(u) ==
  /\ u \notin asked
  /\ MayWrite(u)
  /\ asked' = asked \cup {u}
  /\ UNCHANGED <<gate, paused, mover, request, rollout, moves, store>>

UncountedWrites(u) ==
  /\ u \in asked
  /\ asked' = asked \ {u}
  /\ \E x \in Rows : NewRow(x, "uncounted")
  /\ UNCHANGED <<gate, paused, mover, request, rollout, moves>>

-----------------------------------------------------------------------------
(* The move's thread *)

Step(m, here, there) ==
  /\ step[m] = here
  /\ step' = [step EXCEPT ![m] = there]

\* Any failure ends the move; its outcome was "failed" from the start.
Fails(m, here) ==
  /\ Step(m, here, "ending")
  /\ UNCHANGED <<gate, paused, mover, request, rollout, plan, asked>>

Locks(m) ==
  /\ Step(m, "waiting", "locked")
  /\ Lockable
  /\ state' = "locked"
  /\ UNCHANGED <<underWay, paused, mover, request, rollout, plan, asked, store>>

LocksNot(m) ==
  /\ Step(m, "waiting", "looking")
  /\ ~Lockable
  /\ UNCHANGED <<gate, paused, mover, request, rollout, plan, asked, store>>

\* (a bug of the kind: no deadline)
GivesUpOnCancel(m) ==
  /\ Step(m, "looking", "ending")
  /\ cancelled
  /\ outcome' = [outcome EXCEPT ![m] = "cancelled"]
  /\ UNCHANGED <<gate, paused, mover, request, rollout, target, archive, source, asked, store>>

GivesUp(m) ==
  /\ Step(m, "looking", "ending")
  /\ cancelled \/ overdue
  /\ outcome' = [outcome EXCEPT ![m] = IF cancelled THEN "cancelled" ELSE "failed"]
  /\ UNCHANGED <<gate, paused, mover, request, rollout, target, archive, source, asked, store>>

Sleeps(m) ==
  /\ Step(m, "looking", "waiting")
  /\ ~cancelled /\ ~overdue
  /\ UNCHANGED <<gate, paused, mover, request, rollout, plan, asked, store>>

Copying(m) ==
  /\ Step(m, "locked", "copying")
  /\ status' = "copying"
  /\ UNCHANGED <<gate, paused, cancelled, overdue, request, rollout, plan, asked, store>>

\* copy(): the backup of the database in use
Archives(m) ==
  /\ Step(m, "copying", "archived")
  /\ archive' = [archive EXCEPT ![m] = data[connection]]
  /\ UNCHANGED <<gate, paused, mover, request, rollout, target, outcome, source, asked, store>>

CopyFails(m) == Fails(m, "copying") /\ UNCHANGED store

\* copy(): restored into the target, in one transaction
Restored(m) ==
  /\ data' = [data EXCEPT ![target[m]] = archive[m]]
  /\ UNCHANGED <<connection, runtimeEnv, written>>

\* Restored and the counts compared.
Switching(m) ==
  /\ Step(m, "archived", "switching")
  /\ Restored(m)
  /\ status' = "switching"
  /\ UNCHANGED <<gate, paused, cancelled, overdue, request, rollout, plan, asked>>

\* Not restored, or restored with other counts than the backup's.
RestoreFails(m) ==
  /\ Fails(m, "archived")
  /\ UNCHANGED store \/ Restored(m)

\* switch_to: the connection first
Swaps(m) ==
  /\ Step(m, "switching", "swapped")
  /\ source' = [source EXCEPT ![m] = connection]
  /\ connection' = target[m]
  /\ UNCHANGED <<gate, paused, mover, request, rollout, target, outcome, archive, asked,
                 runtimeEnv, data, written>>

SwapFails(m) == Fails(m, "switching") /\ UNCHANGED store

\* switch_to: runtime.env last
Keeps(m) ==
  /\ Step(m, "swapped", "ending")
  /\ runtimeEnv' = target[m]
  /\ outcome' = [outcome EXCEPT ![m] = "done"]
  /\ UNCHANGED <<gate, paused, mover, request, rollout, target, archive, source, asked, connection,
                 data, written>>

\* (a bug of the kind: the connection left where it is)
UndoneNot(m) == UNCHANGED connection

\* undo(): back to the database before
Undone(m) == connection' = source[m]

KeepFails(m) ==
  /\ Fails(m, "swapped")
  /\ Undone(m) \/ ("undo" \in Faults /\ UNCHANGED connection)
  /\ UNCHANGED <<runtimeEnv, data, written>>

\* (a bug of the kind: rollouts are not resumed)
EndsPaused(m) ==
  /\ Step(m, "ending", "ended")
  /\ state' = "idle"
  /\ UNCHANGED <<underWay, paused, mover, request, rollout, plan, asked, store>>

\* Maintenance.end()
Ends(m) ==
  /\ Step(m, "ending", "ended")
  /\ state' = "idle"
  /\ paused' = FALSE
  /\ UNCHANGED <<underWay, mover, request, rollout, plan, asked, store>>

\* _audit_failure: after the end of maintenance, and of no request
Audits(m) ==
  /\ Step(m, "ended", "audited")
  /\ \/ outcome[m] # "done" /\ \E x \in Rows : NewRow(x, "uncounted")
     \/ (outcome[m] = "done" \/ NoRowLeft) /\ UNCHANGED store
  /\ UNCHANGED <<gate, paused, mover, request, rollout, plan, asked>>

\* The outcome goes into the status there is now.
Reports(m) ==
  /\ Step(m, "audited", "over")
  /\ status' = outcome[m]
  /\ UNCHANGED <<gate, paused, cancelled, overdue, request, rollout, plan, asked, store>>

-----------------------------------------------------------------------------
\* The clock reaches the deadline of the status there is.
DeadlinePasses ==
  /\ ~overdue
  /\ \E m \in Moves : step[m] \in {"announced", "waiting", "looking"}
  /\ overdue' = TRUE
  /\ UNCHANGED <<gate, paused, status, cancelled, request, rollout, moves, asked, store>>

\* The process dies at any moment; the next one connects as runtime.env says.
Crash ==
  /\ "crash" \in Faults
  /\ state' = "idle" /\ underWay' = 0 /\ paused' = FALSE
  /\ status' = "idle" /\ cancelled' = FALSE /\ overdue' = FALSE
  /\ request' = [r \in Requests |-> Out]
  /\ rollout' = [j \in Rollouts |-> IF rollout[j] = "unborn" THEN "unborn" ELSE "over"]
  /\ step' = [m \in Moves |-> IF step[m] = "unborn" THEN "unborn" ELSE "over"]
  /\ asked' = {}
  /\ connection' = runtimeEnv
  /\ UNCHANGED <<plan, runtimeEnv, data, written>>

-----------------------------------------------------------------------------
View(r) ==
  \/ CheckTarget(r) \/ BeginRefused(r)
  \/ \E m \in Moves : Begin(r, m) \/ Announce(r, m) \/ Launch(r, m)
  \/ \E j \in Rollouts : Submit(r, j)
  \/ CancelLooks(r) \/ CancelSets(r)
  \/ RedisReads(r) \/ RedisPauses(r) \/ RedisRefused(r) \/ RedisGoes(r)
  \/ RedisReplaced(r) \/ RedisResumes(r)

Request(r) == Enter(r) \/ Leave(r) \/ RequestWrites(r) \/ View(r)

Rollout(j) == RolloutEnds(j) \/ RolloutSaved(j)

MoveThread(m) ==
  \/ Locks(m) \/ LocksNot(m) \/ GivesUp(m) \/ Sleeps(m)
  \/ Copying(m) \/ Archives(m) \/ CopyFails(m)
  \/ Switching(m) \/ RestoreFails(m)
  \/ Swaps(m) \/ SwapFails(m) \/ Keeps(m) \/ KeepFails(m)
  \/ Ends(m) \/ Audits(m) \/ Reports(m)

Next ==
  \/ \E r \in Requests : Request(r)
  \/ \E j \in Rollouts : Rollout(j)
  \/ \E u \in Uncounted : UncountedAsks(u) \/ UncountedWrites(u)
  \/ \E m \in Moves : MoveThread(m)
  \/ DeadlinePasses
  \/ Crash

Spec == Init /\ [][Next]_vars

\* A view runs to its end; the thread of a move keeps running; clocks move on.
ViewGoesOn(r) ==
  \/ BeginRefused(r) \/ CancelSets(r)
  \/ \E m \in Moves : Begin(r, m) \/ Announce(r, m) \/ Launch(r, m)
  \/ RedisPauses(r) \/ RedisRefused(r) \/ RedisGoes(r) \/ RedisReplaced(r) \/ RedisResumes(r)

Fairness ==
  /\ \A r \in Requests : WF_vars(ViewGoesOn(r))
  /\ \A m \in Moves : WF_vars(MoveThread(m))
  /\ WF_vars(DeadlinePasses)

FairSpec == Spec /\ Fairness

-----------------------------------------------------------------------------
\* Every variable has its type (what __init__ and the handlers put there); the
\* count of requests under way never goes below zero.
TypeOK ==
  /\ state \in {"idle", "waiting", "locked"} /\ underWay \in Nat /\ paused \in BOOLEAN
  /\ status \in MoveStates /\ cancelled \in BOOLEAN /\ overdue \in BOOLEAN
  /\ request \in [Requests -> RequestStates]
  /\ rollout \in [Rollouts -> {"unborn", "active", "saving", "over"}]
  /\ step \in [Moves -> MoveSteps]
  /\ target \in [Moves -> Databases] /\ source \in [Moves -> Databases]
  /\ outcome \in [Moves -> Ended]
  /\ archive \in [Moves -> SUBSET Rows]
  /\ asked \subseteq Uncounted
  /\ connection \in Databases /\ runtimeEnv \in Databases
  /\ data \in [Databases -> SUBSET Rows]
  /\ written \in [Rows -> {"not", "counted", "uncounted"}]

Locked == {"locked", "copying", "archived", "switching", "swapped"}

\* No row a request or a rollout has written is ever missing - neither from
\* the database in use nor from the one a new process would use - whatever a
\* move does, however it fails, and whenever the process dies (the lock of
\* Maintenance, the order of switch_to).
CountedRowsKept ==
  \A x \in Rows : written[x] = "counted" =>
    x \in data[connection] /\ x \in data[runtimeEnv]

\* A move never copies a database onto itself: start() compares the target
\* with the database in use long before its move begins, and the move of
\* another admin must not have ended there in between.
NeverOntoItself ==
  \A m \in Moves : step[m] \in {"copying", "archived", "switching"} => target[m] # connection

\* "Anything failing before 3 leaves NetRollout on its database": before a move
\* that failed or was cancelled lets people back in, sessions go where
\* runtime.env says, so that what is written then survives a restart.
FailedMoveStays ==
  \A m \in Moves : step[m] = "ending" /\ outcome[m] # "done" => connection = runtimeEnv

\* WriteGate: whoever may write is counted until they no longer may, and the
\* move has the database to itself from its lock to the end of maintenance.
Gate == INSTANCE WriteGate WITH
  Users <- Requests \cup Rollouts,
  inside <- Counted \cup ActiveRollouts \cup UnsavedRollouts,
  alone <- (state = "locked")

ImplementsWriteGate == Gate!Spec

\* A move that has begun comes to an end: done, or given up at its deadline
\* at the latest (_run, "Maintenance ends whatever happens").
MoveEnds == \A m \in Moves : step[m] = "begun" ~> step[m] = "over"

\* Rollouts refused for a move are accepted again after it (Maintenance.end).
RolloutsResume == paused ~> ~paused

-----------------------------------------------------------------------------
(* What the code's comments say and its runs do not                        *)

\* "Nothing may write to the source meanwhile": no row at all is missing.
NoRowLost == \A x \in Rows : written[x] # "not" => x \in data[connection]

\* cancel() "gives the move up": one that is asked to does not copy.
CancelHeeded == state = "locked" => ~cancelled

\* Rollouts are refused only while a move or a Redis switch is under way.
PauseEnds ==
  paused => Active \/ \E r \in Requests : request[r].at \in {"counting", "replacing", "resuming"}
=============================================================================
