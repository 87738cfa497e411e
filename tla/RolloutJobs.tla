---------------------------- MODULE RolloutJobs ----------------------------
(***************************************************************************)
(* The rollouts of the web app (src/src/jobs.py): RolloutOrchestrator with *)
(* its job table, device holds, slots and dispatcher thread, the JobStore  *)
(* keys in Redis, the ResultRecorder, and the threads that meet there -    *)
(* the requests that submit and cancel, one thread per running rollout,    *)
(* the drain of a stop, and the pause of a database move.                  *)
(*                                                                         *)
(* Grain.  A block under RolloutOrchestrator._lock is one step; so is each *)
(* JobStore call and each save to Postgres.  Everything between two such   *)
(* steps may be interleaved with every other thread.                       *)
(***************************************************************************)
EXTENDS Integers, Sequences, FiniteSets

SE == INSTANCE SequencesExt

CONSTANTS
  Jobs,           \* the rollouts people ask for: one submit() each
  Targets,        \* devices, as ip:port (Device.target)
  TargetsOf,      \* Jobs -> the devices each rollout is for
  NoJob,
  MaxConcurrent,  \* the System Setting: rollouts running at the same time
  Requests,       \* what people ask for besides: "cancel", "pause", "stop"
  Faults,         \* the kinds of fault that may strike
  MaxFaults,      \* bound: how many strike in a behaviour
  MaxRestarts     \* bound: how often a process that is down is started again

(***************************************************************************)
(* "outage"     Redis stops answering for a while                          *)
(* "reply_lost" it stops while a call is under way: the command was        *)
(*              executed, its answer is lost and the client's one retry    *)
(*              finds nothing                                              *)
(* "postgres"   the job's metadata can't be written                        *)
(* "log"        a queued job's cancellation can't be recorded              *)
(* "thread"     the system gives no further thread                         *)
(* "slow"       a wait of the drain runs out before what it waits for      *)
(* "crash"      the process dies                                           *)
(***************************************************************************)
FaultKinds == {"outage", "reply_lost", "postgres", "log", "thread", "slow", "crash"}

ASSUME JobsAssumption == NoJob \notin Jobs
ASSUME TargetsAssumption == TargetsOf \in [Jobs -> SUBSET Targets]
ASSUME SlotsAssumption == MaxConcurrent \in Nat \ {0}
ASSUME RequestsAssumption == Requests \subseteq {"cancel", "pause", "stop"}
ASSUME FaultsAssumption == Faults \subseteq FaultKinds /\ MaxFaults \in Nat
ASSUME RestartsAssumption == MaxRestarts \in Nat

VARIABLES
  \* the process's memory
  up,          \* the process runs
  jobs,        \* _jobs: the queued and running rollouts
  held,        \* _held: device -> the rollout holding it
  claimed,     \* rollouts whose started_at is set (RolloutJob.claim)
  flagged,     \* rollouts whose cancel flag is set
  draining,
  paused,
  slots,       \* the semaphore _slots
  saving,      \* ResultRecorder._saving
  \* its threads
  submit,      \* where each submit() is
  added,       \* its local `added`: JobStore.add completed
  disp,        \* the dispatcher: where it is, the entry it took
  work,        \* the thread that ends a claimed rollout: where it is
  marking,     \* cancel() calls about to write CANCELLING
  drain,       \* the stop's thread
  drainJobs,   \* the rollouts its loop has still to go through
  \* Redis
  redisUp,
  queue,       \* the job queue (a list)
  hash,        \* job:{id}:meta's status
  pending,     \* the gauges
  active,
  \* history
  ran,         \* rollouts whose engine was started
  recorded,    \* the outcomes saved (Postgres, or the file that stands in)
  faults,
  restarts

memory  == <<up, jobs, held, claimed, flagged, draining, paused, slots, saving>>
threads == <<submit, added, disp, work, marking, drain, drainJobs>>
redis   == <<redisUp, queue, hash, pending, active>>
history == <<ran, recorded, faults, restarts>>
vars    == <<memory, threads, redis, history>>

-----------------------------------------------------------------------------
(***************************************************************************)
(* Where each thread can be.                                               *)
(***************************************************************************)
SubmitSteps == {"new", "claimed", "added", "described", "accepted", "refused",
                "undo", "unlisted", "unqueued", "failed"}
DispatcherSteps == {"pop", "slot", "claim", "mark", "launch", "dead"}
WorkSteps == {"none", "running", "ended", "dropped", "unqueued", "saving", "saved",
              "over", "cut"}
DrainSteps == {"off", "recording", "waiting", "cancelling", "cancelwait", "savewait"}
Statuses == {"none", "pending", "active", "cancelling"}

\* A submit() under way: begun, and neither answered nor raised yet.
UnderWay(j) == submit[j] \notin {"new", "accepted", "refused", "failed"}

Holding(j) == {t \in Targets : held[t] = j}

\* counts(): claimed rollouts in the table are running, the others queued.
Running == jobs \cap claimed
Queued  == jobs \ claimed

\* ResultRecorder.busy(): a finished rollout is still writing its results.
BusyFromTwo == saving > 1
BusyAlways == saving >= 0
Busy == saving > 0

\* idle(): nothing queued or running, nothing being saved.
IdleByTable == jobs = {}
Idle == jobs = {} /\ ~Busy

\* RolloutJob.status: what the lists built from memory show.
Status(j) ==
  IF j \in flagged THEN "cancelling" ELSE IF j \in claimed THEN "active" ELSE "pending"

\* _refuse_if_closed(): stopping, or paused for a database move.
Closed == draining \/ paused

\* _conflicts(): the devices of j that a queued or running rollout holds.
ConflictsRunning(j) == {t \in TargetsOf[j] : held[t] \in Running}
ConflictsIfAll(j) ==
  IF \A t \in TargetsOf[j] : held[t] # NoJob THEN TargetsOf[j] ELSE {}
Conflicts(j) == {t \in TargetsOf[j] : held[t] # NoJob}

(***************************************************************************)
(* _remove(): the one way a rollout leaves the table.  Frees its devices.  *)
(***************************************************************************)
RemoveKeepsDevices(j) == jobs' = jobs \ {j} /\ UNCHANGED held

Remove(j) ==
  /\ jobs' = jobs \ {j}
  /\ held' = [t \in Targets |-> IF held[t] = j THEN NoJob ELSE held[t]]

\* LREM: the id out of the queue.  It is there once at most: submit() pushes
\* it once, and nothing puts it back.
Without(q, j) ==
  IF \E i \in DOMAIN q : q[i] = j
  THEN SE!RemoveAt(q, CHOOSE i \in DOMAIN q : q[i] = j)
  ELSE q

\* claim(): each rollout is claimed once, by whoever comes first.
ClaimableTwice(j) == j \in jobs
Claimable(j) == j \in Queued

\* acquire() goes on when a slot is free.
SlotFreeOrNot == slots >= 0
SlotFree == slots > 0

\* _cleanup() gives the slot of a rollout that ran back; one that was ended
\* while queued had none.
SlotKept(j) == slots
SlotForAll(j) == slots + 1
SlotBack(j) == IF j \in ran THEN slots + 1 ELSE slots

(***************************************************************************)
(* A fault of this kind strikes now.                                       *)
(***************************************************************************)
Strikes(kind) ==
  /\ kind \in Faults
  /\ faults < MaxFaults
  /\ faults' = faults + 1

(***************************************************************************)
(* How a Redis call ends.  Answered: executed, and the caller knows.       *)
(* Refused: Redis is away, nothing executed, the caller gets an error.     *)
(* Lost: executed, but the caller gets an error all the same.              *)
(***************************************************************************)
Answered == redisUp /\ UNCHANGED <<redisUp, faults>>
Refused  == ~redisUp /\ UNCHANGED <<redisUp, faults>>
Lost     == redisUp /\ Strikes("reply_lost") /\ redisUp' = FALSE

Executed == Answered \/ Lost

StoreKeys == <<queue, hash, pending, active>>

-----------------------------------------------------------------------------
(***************************************************************************)
(* JobStore: what each call does to the keys.                              *)
(***************************************************************************)
StoreAdd(j) ==
  /\ hash' = [hash EXCEPT ![j] = "pending"]
  /\ pending' = pending + 1
  /\ UNCHANGED <<queue, active>>

StoreEnqueue(j) ==
  /\ queue' = Append(queue, j)
  /\ UNCHANGED <<hash, pending, active>>

StoreNextQueued ==
  /\ queue' = Tail(queue)
  /\ UNCHANGED <<hash, pending, active>>

StoreUnqueue(j) ==
  /\ queue' = Without(queue, j)
  /\ UNCHANGED <<hash, pending, active>>

\* set_status(): only on a hash that exists.
StoreSetStatus(j) ==
  /\ hash' = [hash EXCEPT ![j] = IF @ = "none" THEN @ ELSE "cancelling"]
  /\ UNCHANGED <<queue, pending, active>>

StoreStarted(j) ==
  /\ hash' = [hash EXCEPT ![j] = "active"]
  /\ pending' = pending - 1
  /\ active' = active + 1
  /\ UNCHANGED queue

StoreForget(j) ==
  /\ hash' = [hash EXCEPT ![j] = "none"]
  /\ UNCHANGED <<queue, pending, active>>

StoreFinished(j, wasRunning) ==
  /\ hash' = [hash EXCEPT ![j] = "none"]
  /\ IF wasRunning
     THEN active' = active - 1 /\ UNCHANGED pending
     ELSE pending' = pending - 1 /\ UNCHANGED active
  /\ UNCHANGED queue

StoreResetStaleKeepsGauges ==
  /\ queue' = <<>>
  /\ hash' = [j \in Jobs |-> "none"]
  /\ UNCHANGED <<pending, active>>

StoreResetStale ==
  /\ queue' = <<>>
  /\ hash' = [j \in Jobs |-> "none"]
  /\ pending' = 0
  /\ active' = 0

-----------------------------------------------------------------------------
(***************************************************************************)
(* submit().  SubmitClaim is its locked block; the same two checks made    *)
(* just before it, without effect, refuse nothing that this would not.     *)
(***************************************************************************)
SubmitRefused(j) ==
  /\ up
  /\ submit[j] = "new"
  /\ Closed \/ Conflicts(j) # {}
  /\ submit' = [submit EXCEPT ![j] = "refused"]
  /\ UNCHANGED <<memory, added, disp, work, marking, drain, drainJobs, redis, history>>

SubmitClaim(j) ==
  /\ up
  /\ submit[j] = "new"
  /\ ~Closed
  /\ Conflicts(j) = {}
  /\ jobs' = jobs \cup {j}
  /\ held' = [t \in Targets |-> IF t \in TargetsOf[j] THEN j ELSE held[t]]
  /\ submit' = [submit EXCEPT ![j] = "claimed"]
  /\ UNCHANGED <<up, claimed, flagged, draining, paused, slots, saving,
                 added, disp, work, marking, drain, drainJobs, redis, history>>

SubmitAdd(j) ==
  /\ up
  /\ submit[j] = "claimed"
  /\ \/ /\ Answered
        /\ StoreAdd(j)
        /\ submit' = [submit EXCEPT ![j] = "added"]
        /\ added' = added \cup {j}
     \/ /\ (Lost /\ StoreAdd(j)) \/ (Refused /\ UNCHANGED StoreKeys)
        /\ submit' = [submit EXCEPT ![j] = "undo"]
        /\ UNCHANGED added
  /\ UNCHANGED <<memory, disp, work, marking, drain, drainJobs, ran, recorded, restarts>>

\* The job's commands and comment into Postgres (JobMetadata).
SubmitDescribe(j) ==
  /\ up
  /\ submit[j] = "added"
  /\ \/ /\ submit' = [submit EXCEPT ![j] = "described"]
        /\ UNCHANGED faults
     \/ /\ Strikes("postgres")
        /\ submit' = [submit EXCEPT ![j] = "undo"]
  /\ UNCHANGED <<memory, added, disp, work, marking, drain, drainJobs, redis,
                 ran, recorded, restarts>>

SubmitEnqueue(j) ==
  /\ up
  /\ submit[j] = "described"
  /\ \/ /\ Answered
        /\ StoreEnqueue(j)
        /\ submit' = [submit EXCEPT ![j] = "accepted"]
     \/ /\ (Lost /\ StoreEnqueue(j)) \/ (Refused /\ UNCHANGED StoreKeys)
        /\ submit' = [submit EXCEPT ![j] = "undo"]
  /\ UNCHANGED <<memory, added, disp, work, marking, drain, drainJobs,
                 ran, recorded, restarts>>

(***************************************************************************)
(* _withdraw(): a submit that failed partway.  The two Redis calls are     *)
(* best-effort.                                                            *)
(***************************************************************************)
WithdrawRemove(j) ==
  /\ up
  /\ submit[j] = "undo"
  /\ Remove(j)
  /\ submit' = [submit EXCEPT ![j] = "unlisted"]
  /\ UNCHANGED <<up, claimed, flagged, draining, paused, slots, saving,
                 added, disp, work, marking, drain, drainJobs, redis, history>>

WithdrawUnqueue(j) ==
  /\ up
  /\ submit[j] = "unlisted"
  /\ submit' = [submit EXCEPT ![j] = "unqueued"]
  /\ \/ Executed /\ StoreUnqueue(j)
     \/ Refused /\ UNCHANGED StoreKeys
  /\ UNCHANGED <<memory, added, disp, work, marking, drain, drainJobs,
                 ran, recorded, restarts>>

WithdrawGone(j) ==
  /\ up
  /\ submit[j] = "unqueued"
  /\ submit' = [submit EXCEPT ![j] = "failed"]
  /\ \/ Executed /\ j \in added /\ StoreFinished(j, FALSE)
     \/ Executed /\ j \notin added /\ StoreForget(j)
     \/ Refused /\ UNCHANGED StoreKeys
  /\ UNCHANGED <<memory, added, disp, work, marking, drain, drainJobs,
                 ran, recorded, restarts>>

-----------------------------------------------------------------------------
(***************************************************************************)
(* _dispatcher().  An error while it waits for an entry leaves it where it *)
(* is (it sleeps and asks again).                                          *)
(***************************************************************************)
DispatchPop ==
  /\ up
  /\ disp.at = "pop"
  /\ queue # <<>>
  /\ redisUp
  /\ StoreNextQueued
  /\ \/ /\ Answered
        /\ disp' = [at |-> "slot", job |-> Head(queue)]
     \/ /\ Lost
        /\ UNCHANGED disp
  /\ UNCHANGED <<memory, submit, added, work, marking, drain, drainJobs,
                 ran, recorded, restarts>>

DispatchSlot ==
  /\ up
  /\ disp.at = "slot"
  /\ SlotFree
  /\ slots' = slots - 1
  /\ disp' = [disp EXCEPT !.at = "claim"]
  /\ UNCHANGED <<up, jobs, held, claimed, flagged, draining, paused, saving,
                 submit, added, work, marking, drain, drainJobs, redis, history>>

DispatchClaim ==
  /\ up
  /\ disp.at = "claim"
  /\ IF Claimable(disp.job) /\ ~draining
     THEN /\ claimed' = claimed \cup {disp.job}
          /\ disp' = [disp EXCEPT !.at = "mark"]
          /\ UNCHANGED slots
     ELSE /\ slots' = slots + 1      \* gone, or somebody else records it
          /\ disp' = [at |-> "pop", job |-> NoJob]
          /\ UNCHANGED claimed
  /\ UNCHANGED <<up, jobs, held, flagged, draining, paused, saving,
                 submit, added, work, marking, drain, drainJobs, redis, history>>

\* store.started(): the job starts whether or not it could be written.
DispatchMark ==
  /\ up
  /\ disp.at = "mark"
  /\ disp' = [disp EXCEPT !.at = "launch"]
  /\ \/ Executed /\ StoreStarted(disp.job)
     \/ Refused /\ UNCHANGED StoreKeys
  /\ UNCHANGED <<memory, submit, added, work, marking, drain, drainJobs,
                 ran, recorded, restarts>>

\* job.start(): nothing around it catches a thread that cannot be started.
DispatchLaunch ==
  /\ up
  /\ disp.at = "launch"
  /\ \/ /\ work' = [work EXCEPT ![disp.job] = "running"]
        /\ ran' = ran \cup {disp.job}
        /\ disp' = [at |-> "pop", job |-> NoJob]
        /\ UNCHANGED faults
     \/ /\ Strikes("thread")
        /\ disp' = [disp EXCEPT !.at = "dead"]
        /\ UNCHANGED <<work, ran>>
  /\ UNCHANGED <<memory, submit, added, marking, drain, drainJobs, redis,
                 recorded, restarts>>

Dispatcher ==
  DispatchPop \/ DispatchSlot \/ DispatchClaim \/ DispatchMark \/ DispatchLaunch

-----------------------------------------------------------------------------
(***************************************************************************)
(* How a claimed rollout ends.  One that ran: the engine returns (or       *)
(* raises), then _cleanup() finalises it and gives its slot back.  One     *)
(* taken while queued, by a cancel or the drain: its devices are recorded  *)
(* as cancelled, its entry leaves the queue, and it is finalised.          *)
(***************************************************************************)
EngineEnds(j) ==
  /\ up
  /\ work[j] = "running"
  /\ work' = [work EXCEPT ![j] = "ended"]
  /\ UNCHANGED <<memory, submit, added, disp, marking, drain, drainJobs, redis, history>>

\* The drain records the rollouts it took one after the other.
DrainReaches(j) ==
  j \in drainJobs => \A k \in drainJobs \ {j} : work[k] \in {"dropped", "over"}

CancelQueuedRaises(j) ==
  /\ up
  /\ work[j] = "dropped"
  /\ DrainReaches(j)
  /\ \/ /\ Executed /\ StoreUnqueue(j)
        /\ work' = [work EXCEPT ![j] = "unqueued"]
        /\ UNCHANGED <<jobs, held>>
     \/ /\ Refused /\ UNCHANGED StoreKeys
        /\ work' = [work EXCEPT ![j] = "over"]
        /\ Remove(j)
  /\ UNCHANGED <<up, claimed, flagged, draining, paused, slots, saving, submit, added,
                 disp, marking, drain, drainJobs, ran, recorded, restarts>>

CancelQueued(j) ==
  /\ up
  /\ work[j] = "dropped"
  /\ DrainReaches(j)
  /\ work' = [work EXCEPT ![j] = "unqueued"]
  /\ \/ Executed /\ StoreUnqueue(j)
     \/ Refused /\ UNCHANGED StoreKeys
  /\ UNCHANGED <<memory, submit, added, disp, marking, drain, drainJobs,
                 ran, recorded, restarts>>

\* _cancel_queued()'s last resort: it left the table, nothing is recorded.
CancelQueuedFails(j) ==
  /\ up
  /\ work[j] = "dropped"
  /\ DrainReaches(j)
  /\ Strikes("log")
  /\ Remove(j)
  /\ work' = [work EXCEPT ![j] = "over"]
  /\ UNCHANGED <<up, claimed, flagged, draining, paused, slots, saving, submit, added,
                 disp, marking, drain, drainJobs, redis, ran, recorded, restarts>>

\* _finalize()'s locked block; a rollout that has left the table is nobody's.
Finalize(j) ==
  /\ up
  /\ work[j] \in {"ended", "unqueued"}
  /\ IF j \in jobs
     THEN /\ Remove(j)
          /\ saving' = saving + 1
          /\ work' = [work EXCEPT ![j] = "saving"]
          /\ UNCHANGED slots
     ELSE /\ work' = [work EXCEPT ![j] = "over"]
          /\ slots' = SlotBack(j)
          /\ UNCHANGED <<jobs, held, saving>>
  /\ UNCHANGED <<up, claimed, flagged, draining, paused, submit, added, disp,
                 marking, drain, drainJobs, redis, history>>

\* ResultRecorder.save(): into Postgres or, after three tries, into a file.
SaveResults(j) ==
  /\ up
  /\ work[j] = "saving"
  /\ recorded' = [recorded EXCEPT ![j] = @ \cup {IF j \in ran THEN "ran" ELSE "cancelled"}]
  /\ saving' = saving - 1
  /\ work' = [work EXCEPT ![j] = "saved"]
  /\ UNCHANGED <<up, jobs, held, claimed, flagged, draining, paused, slots, submit, added,
                 disp, marking, drain, drainJobs, redis, ran, faults, restarts>>

\* The rest of _finalize(), and of _cleanup() for a rollout that ran.
Finish(j) ==
  /\ up
  /\ work[j] = "saved"
  /\ work' = [work EXCEPT ![j] = "over"]
  /\ slots' = SlotBack(j)
  /\ \/ Executed /\ StoreFinished(j, j \in ran)
     \/ Refused /\ UNCHANGED StoreKeys
  /\ UNCHANGED <<up, jobs, held, claimed, flagged, draining, paused, saving, submit, added,
                 disp, marking, drain, drainJobs, ran, recorded, restarts>>

Worker(j) ==
  \/ EngineEnds(j) \/ CancelQueued(j) \/ CancelQueuedFails(j)
  \/ Finalize(j) \/ SaveResults(j) \/ Finish(j)

-----------------------------------------------------------------------------
(***************************************************************************)
(* cancel(): a queued rollout is taken and ended by the caller's thread, a *)
(* running one is asked to stop, and its hash says so a step later.  (The  *)
(* flag is set in the step that looked the job up: the only thing that can *)
(* come between is the job's end, which does not read it any more.)        *)
(***************************************************************************)
Take(j) ==
  /\ claimed' = claimed \cup {j}
  /\ work' = [work EXCEPT ![j] = "dropped"]

Cancel(j) ==
  /\ "cancel" \in Requests
  /\ up
  /\ j \in jobs
  /\ j \notin marking
  /\ IF Claimable(j)
     THEN Take(j) /\ UNCHANGED <<flagged, marking>>
     ELSE /\ flagged' = flagged \cup {j}
          /\ marking' = marking \cup {j}
          /\ UNCHANGED <<claimed, work>>
  /\ UNCHANGED <<up, jobs, held, draining, paused, slots, saving,
                 submit, added, disp, drain, drainJobs, redis, history>>

CancelMark(j) ==
  /\ up
  /\ j \in marking
  /\ marking' = marking \ {j}
  /\ \/ Executed /\ StoreSetStatus(j)
     \/ Refused /\ UNCHANGED StoreKeys
  /\ UNCHANGED <<memory, submit, added, disp, work, drain, drainJobs,
                 ran, recorded, restarts>>

\* pause() and resume(), a database move's and a Redis switch's.
Pause ==
  /\ "pause" \in Requests
  /\ up /\ ~paused
  /\ paused' = TRUE
  /\ UNCHANGED <<up, jobs, held, claimed, flagged, draining, slots, saving,
                 threads, redis, history>>

Resume ==
  /\ up /\ paused
  /\ paused' = FALSE
  /\ UNCHANGED <<up, jobs, held, claimed, flagged, draining, slots, saving,
                 threads, redis, history>>

-----------------------------------------------------------------------------
(***************************************************************************)
(* drain(), once per process (Shutdown.begin).                             *)
(***************************************************************************)
DrainBegin ==
  /\ "stop" \in Requests
  /\ up
  /\ drain = "off"
  /\ drain' = "recording"
  /\ draining' = TRUE
  /\ drainJobs' = Queued
  /\ claimed' = claimed \cup Queued
  /\ work' = [j \in Jobs |-> IF j \in Queued THEN "dropped" ELSE work[j]]
  /\ UNCHANGED <<up, jobs, held, flagged, paused, slots, saving,
                 submit, added, disp, marking, redis, history>>

DrainRecorded ==
  /\ up
  /\ drain = "recording"
  /\ \A j \in drainJobs : work[j] = "over"
  /\ drain' = "waiting"
  /\ drainJobs' = {}
  /\ UNCHANGED <<memory, submit, added, disp, work, marking, redis, history>>

\* No rollout runs any more, or the deadline passed or a stop now was asked
\* for - then those still running are cancelled.
DrainWaited ==
  /\ up
  /\ drain = "waiting"
  /\ IF Running = {}
     THEN drain' = "savewait" /\ UNCHANGED drainJobs
     ELSE drain' = "cancelling" /\ drainJobs' = jobs
  /\ UNCHANGED <<memory, submit, added, disp, work, marking, redis, history>>

DrainCancel(j) ==
  /\ up
  /\ drain = "cancelling"
  /\ j \in drainJobs
  /\ drainJobs' = drainJobs \ {j}
  /\ flagged' = flagged \cup {j}
  /\ \/ Executed /\ StoreSetStatus(j)
     \/ Refused /\ UNCHANGED StoreKeys
  /\ UNCHANGED <<up, jobs, held, claimed, draining, paused, slots, saving, submit, added,
                 disp, work, marking, drain, ran, recorded, restarts>>

DrainCancelled ==
  /\ up
  /\ drain = "cancelling"
  /\ drainJobs = {}
  /\ drain' = "cancelwait"
  /\ UNCHANGED <<memory, submit, added, disp, work, marking, drainJobs, redis, history>>

\* What is waited for has happened, or _CANCEL_WAIT / _SAVE_WAIT ran out.
WaitEnds(condition) ==
  \/ condition /\ UNCHANGED faults
  \/ ~condition /\ Strikes("slow")

DrainCancelWaited ==
  /\ up
  /\ drain = "cancelwait"
  /\ WaitEnds(Running = {})
  /\ drain' = "savewait"
  /\ UNCHANGED <<memory, submit, added, disp, work, marking, drainJobs, redis,
                 ran, recorded, restarts>>

(***************************************************************************)
(* The process's end: its memory and its threads go, Redis stays.          *)
(***************************************************************************)
Fresh ==
  /\ jobs' = {}
  /\ held' = [t \in Targets |-> NoJob]
  /\ claimed' = {} /\ flagged' = {}
  /\ draining' = FALSE /\ paused' = FALSE
  /\ slots' = MaxConcurrent
  /\ saving' = 0
  /\ added' = {} /\ marking' = {} /\ drainJobs' = {}
  /\ disp' = [at |-> "pop", job |-> NoJob]
  /\ drain' = "off"
  /\ submit' = [j \in Jobs |-> IF UnderWay(j) THEN "failed" ELSE submit[j]]
  /\ work' = [j \in Jobs |-> IF work[j] \in {"none", "over"} THEN work[j] ELSE "cut"]

\* The last wait of drain(), then Shutdown._run()'s os._exit().
DrainExit ==
  /\ up
  /\ drain = "savewait"
  /\ WaitEnds(~Busy)
  /\ up' = FALSE
  /\ Fresh
  /\ UNCHANGED <<redis, ran, recorded, restarts>>

Crash ==
  /\ up
  /\ Strikes("crash")
  /\ up' = FALSE
  /\ Fresh
  /\ UNCHANGED <<redis, ran, recorded, restarts>>

\* The next start: clear_stale_jobs(), then a new orchestrator.
Start ==
  /\ ~up
  /\ restarts < MaxRestarts
  /\ restarts' = restarts + 1
  /\ up' = TRUE
  /\ \/ Executed /\ StoreResetStale
     \/ Refused /\ UNCHANGED StoreKeys
  /\ UNCHANGED <<jobs, held, claimed, flagged, draining, paused, slots, saving,
                 threads, ran, recorded>>

RedisFails ==
  /\ redisUp
  /\ Strikes("outage")
  /\ redisUp' = FALSE
  /\ UNCHANGED <<memory, threads, StoreKeys, ran, recorded, restarts>>

RedisReturns ==
  /\ ~redisUp
  /\ redisUp' = TRUE
  /\ UNCHANGED <<memory, threads, StoreKeys, history>>

-----------------------------------------------------------------------------
Init ==
  /\ up = TRUE
  /\ jobs = {}
  /\ held = [t \in Targets |-> NoJob]
  /\ claimed = {} /\ flagged = {}
  /\ draining = FALSE /\ paused = FALSE
  /\ slots = MaxConcurrent
  /\ saving = 0
  /\ submit = [j \in Jobs |-> "new"]
  /\ added = {}
  /\ disp = [at |-> "pop", job |-> NoJob]
  /\ work = [j \in Jobs |-> "none"]
  /\ marking = {}
  /\ drain = "off"
  /\ drainJobs = {}
  /\ redisUp = TRUE
  /\ queue = <<>>
  /\ hash = [j \in Jobs |-> "none"]
  /\ pending = 0 /\ active = 0
  /\ ran = {}
  /\ recorded = [j \in Jobs |-> {}]
  /\ faults = 0 /\ restarts = 0

Submitting(j) ==
  \/ SubmitAdd(j) \/ SubmitDescribe(j) \/ SubmitEnqueue(j)
  \/ WithdrawRemove(j) \/ WithdrawUnqueue(j) \/ WithdrawGone(j)

Draining ==
  \/ DrainRecorded \/ DrainWaited \/ DrainCancelled \/ DrainCancelWaited \/ DrainExit
  \/ \E j \in Jobs : DrainCancel(j)

Next ==
  \/ \E j \in Jobs :
       \/ SubmitRefused(j) \/ SubmitClaim(j) \/ Submitting(j)
       \/ Cancel(j) \/ CancelMark(j)
       \/ Worker(j)
  \/ Dispatcher
  \/ Pause \/ Resume
  \/ DrainBegin \/ Draining
  \/ Crash \/ Start
  \/ RedisFails \/ RedisReturns

Spec == Init /\ [][Next]_vars

(***************************************************************************)
(* Fairness: each thread goes on when it can.  A request that has begun is *)
(* answered, the engine returns (its connections and prompts time out),    *)
(* the deadline of a drain passes, and Redis comes back.  Nobody has to    *)
(* submit, cancel, pause, stop or start anything.                          *)
(***************************************************************************)
Fairness ==
  /\ \A j \in Jobs : /\ WF_vars(Submitting(j))
                     /\ WF_vars(CancelMark(j))
                     /\ WF_vars(Worker(j))
  /\ WF_vars(Dispatcher)
  /\ WF_vars(Draining)
  /\ WF_vars(RedisReturns)

FairSpec == Spec /\ Fairness

-----------------------------------------------------------------------------
\* Every variable has its type (the shapes of jobs.py's state).
TypeOK ==
  /\ up \in BOOLEAN /\ draining \in BOOLEAN /\ paused \in BOOLEAN /\ redisUp \in BOOLEAN
  /\ jobs \subseteq Jobs /\ claimed \subseteq Jobs /\ flagged \subseteq Jobs
  /\ added \subseteq Jobs /\ marking \subseteq Jobs /\ drainJobs \subseteq Jobs
  /\ ran \subseteq Jobs
  /\ held \in [Targets -> Jobs \cup {NoJob}]
  /\ slots \in Nat /\ saving \in Int
  /\ submit \in [Jobs -> SubmitSteps]
  /\ disp \in [at : {"pop"}, job : {NoJob}] \cup [at : DispatcherSteps \ {"pop"}, job : Jobs]
  /\ work \in [Jobs -> WorkSteps]
  /\ drain \in DrainSteps
  /\ queue \in Seq(Jobs)
  /\ hash \in [Jobs -> Statuses]
  /\ pending \in Int /\ active \in Int
  /\ recorded \in [Jobs -> SUBSET {"ran", "cancelled"}]
  /\ faults \in Nat /\ restarts \in Nat

\* Two rollouts never push to one device at once (DeviceBusy): whoever runs
\* has its devices to itself, whatever submits, cancels, drains and
\* withdrawals interleave with it.
OnePushPerDevice ==
  \A j, k \in Jobs :
    j # k /\ work[j] = "running" /\ work[k] = "running" => TargetsOf[j] \cap TargetsOf[k] = {}

\* _held and _jobs agree: a rollout in the table holds all its devices, and
\* no device stays held by one that left (_conflicts would find no row for
\* it, and nobody could ever roll out to the device again).
HoldsMatchTable ==
  /\ \A j \in jobs : TargetsOf[j] \subseteq Holding(j)
  /\ \A t \in Targets : held[t] # NoJob => held[t] \in jobs

\* The two counters that threads share count what they should: every slot is
\* free, with the dispatcher, or with a rollout that ran and has not ended
\* (none leaks, none is given back twice), and the recorder counts the saves
\* under way - what a database move and a stop wait for.
CountersAccounted ==
  LET slotted == {j \in ran : work[j] \in {"running", "ended", "saving", "saved"}}
      dispatching == IF disp.at \in {"claim", "mark", "launch", "dead"} THEN 1 ELSE 0
  IN  /\ slots + Cardinality(slotted) + dispatching = MaxConcurrent
      /\ saving = Cardinality({j \in Jobs : work[j] = "saving"})

\* A rollout is recorded once - as run or as cancelled before it started,
\* never both - and one that was accepted and is over has been recorded
\* (each job is claimed once; results are never dropped).
RecordedOnce ==
  \A j \in Jobs :
    /\ Cardinality(recorded[j]) <= 1
    /\ j \in ran => "cancelled" \notin recorded[j]
    /\ submit[j] = "accepted" /\ work[j] = "over" => recorded[j] # {}

\* A submit that raised leaves nothing behind in this process: its job is in
\* no list, holds no device, and is not pushing.
FailedSubmitNeverRuns ==
  \A j \in Jobs :
    submit[j] = "failed" => j \notin jobs /\ Holding(j) = {} /\ work[j] # "running"

\* No thread is between two steps of its work.
Quiet ==
  /\ \A j \in Jobs : ~UnderWay(j) /\ work[j] \in {"none", "running", "over", "cut"}
  /\ disp.at \in {"pop", "slot", "claim"}
  /\ marking = {}

\* The gauges count what is queued and what runs, whenever no thread is in
\* mid-step: every increment meets one decrement on every path a rollout
\* can end by, also one that is ended while it is still being submitted.
GaugesAgree ==
  up /\ Quiet => pending = Cardinality(Queued) /\ active = Cardinality(Running)

\* Active Jobs (from the hash) and the lists built from memory show the same
\* state for a rollout in the table (RolloutRow, RolloutJob.status).
StatusAgrees ==
  up /\ Quiet => \A j \in jobs : hash[j] = Status(j)

\* A database move's promise (idle()): while paused with nothing queued,
\* running, being saved or being submitted, no result is written and no
\* rollout comes back until resume().
IdleStaysQuiet ==
  [][ paused /\ paused' /\ Idle /\ (\A j \in Jobs : ~UnderWay(j))
      => Idle' /\ UNCHANGED recorded ]_vars

\* A stop cuts nothing: when drain() returns without having run out of
\* patience, every rollout anybody was told is queued has been recorded.
ExitLosesNothing ==
  [][ DrainExit /\ faults' = 0
      => \A j \in Jobs : submit[j] = "accepted" => recorded[j] # {} ]_vars

\* An accepted rollout ends: it gets its slot, or is cancelled.
AcceptedEnds ==
  \A j \in Jobs : submit[j] = "accepted" ~> (work[j] = "over" \/ ~up)

\* A stop comes to an end.
DrainEnds == draining ~> ~up

\* A device is not held for ever.
DevicesFreed ==
  \A t \in Targets : held[t] # NoJob ~> held[t] = NoJob

-----------------------------------------------------------------------------
(***************************************************************************)
(* Why OnePushPerDevice holds: the inductive invariant behind it.  A       *)
(* rollout is in the table, and holds its devices, from before its engine  *)
(* starts until after it ended, because whoever could take it out sooner   *)
(* has lost the race for it: a withdrawal happens only to a rollout whose  *)
(* id never reached the queue, a cancel and a drain take only what the     *)
(* dispatcher has not claimed.  (A lost reply breaks the first of these.)  *)
(***************************************************************************)
TableHolds ==
  /\ \A j \in jobs : \A t \in TargetsOf[j] : held[t] = j
  /\ \A t \in Targets : held[t] # NoJob => held[t] \in jobs
  /\ \A j \in Jobs : submit[j] = "new" => j \notin jobs

EntriesAccepted ==
  /\ \A i \in DOMAIN queue : submit[queue[i]] = "accepted"
  /\ disp.at # "pop" => disp.job \in Jobs /\ submit[disp.job] = "accepted"

ClaimedOnce ==
  /\ \A j \in jobs \ claimed : work[j] = "none"
  /\ disp.at \in {"mark", "launch"} =>
       disp.job \in jobs \cap claimed /\ work[disp.job] = "none"
  /\ \A j \in Jobs : work[j] \in {"running", "ended"} =>
       j \in jobs \cap claimed /\ submit[j] = "accepted"
  /\ \A j \in Jobs : submit[j] = "new" => work[j] = "none"

DeviceInv == TableHolds /\ EntriesAccepted /\ ClaimedOnce

(***************************************************************************)
(* Why RecordedOnce holds.  A rollout's results are written by the one     *)
(* thread that claimed it, after its engine has run or instead of it, so   *)
(* what is recorded never depends on who else wanted it.                   *)
(***************************************************************************)

\* A rollout that nobody has taken, or that the dispatcher is about to start,
\* has no thread yet and has not run - also one that was withdrawn meanwhile.
NobodyAtIt(j) == work[j] = "none" /\ j \notin ran /\ recorded[j] = {}

TakenOnce ==
  /\ \A j \in jobs \ claimed : NobodyAtIt(j)
  /\ \A j \in Jobs : submit[j] = "new" => j \notin claimed /\ NobodyAtIt(j)
  /\ disp.at \in {"mark", "launch"} => disp.job \in claimed /\ NobodyAtIt(disp.job)
  /\ \A j \in Jobs : work[j] \in {"none", "dropped", "unqueued"} => j \notin ran

\* Only what its own thread saves is recorded, once.
RecordedByOne ==
  \A j \in Jobs :
    /\ recorded[j] \subseteq {IF j \in ran THEN "ran" ELSE "cancelled"}
    /\ recorded[j] # {} => work[j] \in {"saved", "over", "cut"}

\* A submit() that has its devices and was not withdrawn.
Standing(j) == submit[j] \in {"claimed", "added", "described", "accepted"}

\* Its rollout stays in the table until its results are taken to be saved.
StandingStays ==
  /\ \A j \in Jobs : Standing(j) /\ work[j] \in {"dropped", "unqueued", "running", "ended"} => j \in jobs
  /\ disp.at \in {"mark", "launch"} /\ Standing(disp.job) => disp.job \in jobs

SavedIsRecorded ==
  \A j \in Jobs : work[j] = "saved" \/ (work[j] = "over" /\ Standing(j)) => recorded[j] # {}

RecordInv == TakenOnce /\ RecordedByOne /\ StandingStays /\ SavedIsRecorded

\* A submit() that was withdrawn has left the table for good.
WithdrawnLeft == \A j \in Jobs : submit[j] \in {"unlisted", "unqueued", "failed"} => j \notin jobs

(***************************************************************************)
(* Why ExitLosesNothing holds: until something fails, a rollout that was   *)
(* claimed for its devices is in the table, being saved or recorded; and a *)
(* drain that has come to its last wait has seen the table empty, with     *)
(* nobody able to fill it any more.                                        *)
(***************************************************************************)
NothingDropped ==
  faults = 0 => \A j \in Jobs : Standing(j) => j \in jobs \/ work[j] = "saving" \/ recorded[j] # {}

DrainClaimsAll ==
  /\ drain # "off" => draining
  /\ draining => jobs \subseteq claimed
  /\ drain = "savewait" /\ faults = 0 => jobs = {}

(***************************************************************************)
(* Why GaugesAgree holds while every call to Redis is answered and every   *)
(* write goes through: what the gauges count is known in mid-step too.  A  *)
(* rollout is pending from store.add() to store.started() or, when it      *)
(* never starts, to store.finished(); one that was ended before its        *)
(* submit() has added it is taken off first and put on afterwards (Owed).  *)
(***************************************************************************)
Started(j) == j \in ran \/ (disp.at \in {"launch", "dead"} /\ disp.job = j)
Listed(j) == j \in jobs \/ work[j] \in {"saving", "saved"}

Pending == {j \in Jobs : submit[j] \in {"added", "described", "accepted"} /\ Listed(j) /\ ~Started(j)}
Owed == {j \in Jobs : submit[j] = "claimed" /\ work[j] = "over"}
Active == {j \in Jobs : Started(j) /\ work[j] \notin {"over", "cut"}}

\* Nothing is withdrawn, and a rollout is in the table until its results are
\* taken to be saved; one that is claimed there has its thread, or gets it.
Smooth ==
  /\ redisUp
  /\ \A j \in Jobs : submit[j] \notin {"undo", "unlisted", "unqueued"}
  /\ \A j \in jobs : Standing(j) /\ work[j] \in {"none", "dropped", "unqueued", "running", "ended"}
  /\ \A j \in Jobs : /\ work[j] \in {"dropped", "unqueued", "running", "ended"} => j \in jobs
                     /\ work[j] \in {"running", "ended"} => j \in ran
                     /\ work[j] \in {"saving", "saved"} => Standing(j)
                     /\ Standing(j) /\ submit[j] # "accepted" => Listed(j) \/ work[j] = "over"
  /\ \A j \in ran : submit[j] = "accepted"
  /\ \A j \in jobs \cap claimed :
       work[j] = "none" => disp.at \in {"mark", "launch", "dead"} /\ disp.job = j
  /\ disp.at = "dead" => disp.job \in jobs \cap claimed /\ NobodyAtIt(disp.job)
  /\ ~up => /\ jobs = {} /\ disp.at = "pop"
            /\ \A j \in Jobs : ~UnderWay(j) /\ work[j] \in {"none", "over", "cut"}

GaugesCount ==
  up => /\ IsFiniteSet(Pending) /\ IsFiniteSet(Owed) /\ IsFiniteSet(Active)
        /\ pending = Cardinality(Pending) - Cardinality(Owed)
        /\ active = Cardinality(Active)

\* The abstract specification, as this one implements it.
Devices == INSTANCE DeviceHolds WITH
             holder <- held,
             pushing <- {j \in Jobs : work[j] = "running"}

\* Whatever submits, cancels, drains, withdraws or crashes: devices are taken
\* and let go of as a whole, and pushed to only while held.
ImplementsDeviceHolds == Devices!Spec
=============================================================================
