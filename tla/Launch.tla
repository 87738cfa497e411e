------------------------------- MODULE Launch -------------------------------
(***************************************************************************)
(* A rollout is launched (src/src/webapp/blueprints/rollout.py): its       *)
(* checks, then one job for each platform, all of them or none; and a      *)
(* rollback, one job for the devices that a finished job configured.       *)
(* The orchestrator is what RolloutJobs models: a submit claims its        *)
(* targets or raises, a job is queued, starts, ends; a cancel ends a       *)
(* queued job at once and asks a running one to stop (and raises when its  *)
(* status can't be written).                                               *)
(***************************************************************************)
EXTENDS Naturals, FiniteSets, Sequences, SequencesExt

CONSTANTS
  Launches,      \* requests: a launch or a rollback
  PlatformsOf,   \* launch -> the sequence of its platforms (a rollback: one)
  TargetsOf,     \* launch and platform -> the targets
  MaxFaults      \* how many calls of the orchestrator may fail

VARIABLES
  launch,    \* launch -> [at, next, queued]: its step, the next platform to queue or to cancel, and how many
             \* it has queued when it backs out
  jobs,      \* <<launch, platform>> -> "none", "queued", "running", "stopping", "ended", "cancelled";
             \* "astray": withdrawn by its submit when it was already running
  accepting, \* whether the orchestrator accepts rollouts
  faults

vars == <<launch, jobs, accepting, faults>>

JobKeys == {<<l, p>> : l \in Launches, p \in UNION {Range(PlatformsOf[l]) : l \in Launches}}
Init ==
  /\ launch = [l \in Launches |-> [at |-> "checking", next |-> 1, queued |-> 0]]
  /\ jobs = [k \in JobKeys |-> "none"]
  /\ accepting = TRUE /\ faults = 0

Live(k) == jobs[k] \in {"queued", "running", "stopping"}
HeldTargets == UNION {TargetsOf[k] : k \in {j \in JobKeys : Live(j)}}
LaunchTargets(l) == UNION {TargetsOf[<<l, p>>] : p \in Range(PlatformsOf[l])}
Current(l) == <<l, PlatformsOf[l][launch[l].next]>>
Moves(l, there, next) == launch' = [launch EXCEPT ![l].at = there, ![l].next = next]
Goes(l, there) == Moves(l, there, launch[l].next)

-----------------------------------------------------------------------------
(* start_rollout, rollback *)

\* Everything that is asked before a job is queued: refused, or none of its devices is in a rollout now.
Checks(l) ==
  /\ launch[l].at = "checking"
  /\ \/ Goes(l, "refused")
     \/ accepting /\ LaunchTargets(l) \cap HeldTargets = {} /\ Goes(l, "queuing")
  /\ UNCHANGED <<jobs, accepting, faults>>

\* (a plausible bug: the devices are not claimed again when the job is queued)
SubmitsUnclaimed(l) == TRUE
\* submit: its own look at the devices, together with the claim
Submits(l) == TargetsOf[Current(l)] \cap HeldTargets = {}

Queues(l) ==
  /\ launch[l].at = "queuing" /\ accepting /\ Submits(l)
  /\ jobs' = [jobs EXCEPT ![Current(l)] = "queued"]
  /\ IF launch[l].next = Len(PlatformsOf[l]) THEN Goes(l, "launched")
     ELSE Moves(l, "queuing", launch[l].next + 1)
  /\ UNCHANGED <<accepting, faults>>

\* What a launch does when a submit raises: those queued are cancelled, then the reason is answered.
BacksOut(l) ==
  launch' = [launch EXCEPT ![l] = [at |-> IF @.next = 1 THEN "refused" ELSE "cancelling", next |-> 1,
                                   queued |-> @.next - 1]]

\* submit raises with nothing queued (stopping or paused, a device claimed meanwhile, a service failing).
QueueFails(l) ==
  /\ launch[l].at = "queuing"
  /\ \/ (~accepting \/ TargetsOf[Current(l)] \cap HeldTargets # {}) /\ UNCHANGED faults
     \/ faults < MaxFaults /\ faults' = faults + 1
  /\ BacksOut(l)
  /\ UNCHANGED <<jobs, accepting>>

\* enqueue: Redis has queued the job, its answer is lost.
AnswerLost(l) ==
  /\ launch[l].at = "queuing" /\ accepting /\ Submits(l)
  /\ faults < MaxFaults /\ faults' = faults + 1
  /\ jobs' = [jobs EXCEPT ![Current(l)] = "queued"]
  /\ Goes(l, "withdrawing")
  /\ UNCHANGED accepting

\* (a plausible bug: a job whose submit failed is left in the table)
WithdrawnKept(k) == jobs[k]
\* _withdraw: out of the table, its devices free; a queued job is never started, a running one runs on.
Withdrawn(k) == CASE jobs[k] = "queued" -> "none" [] jobs[k] = "running" -> "astray" [] OTHER -> jobs[k]

Withdraws(l) ==
  /\ launch[l].at = "withdrawing"
  /\ jobs' = [jobs EXCEPT ![Current(l)] = Withdrawn(Current(l))]
  /\ BacksOut(l)
  /\ UNCHANGED <<accepting, faults>>

\* (a plausible bug: only a job still in the queue is cancelled)
CancelledQueued(k) == CASE jobs[k] = "queued" -> "cancelled" [] OTHER -> jobs[k]
\* cancel: a queued job ends, never started; a running one is asked to stop; an ended one is left
Cancelled(k) == CASE jobs[k] = "queued" -> "cancelled" [] jobs[k] = "running" -> "stopping" [] OTHER -> jobs[k]

CancelsNext(l) ==
  /\ launch[l].at = "cancelling"
  /\ jobs' = [jobs EXCEPT ![Current(l)] = Cancelled(Current(l))]
  /\ \/ /\ IF launch[l].next = launch[l].queued THEN Goes(l, "refused")
           ELSE Moves(l, "cancelling", launch[l].next + 1)
        /\ UNCHANGED faults
     \/ \* the running job's status can't be written: the exception takes the place of the first one
        /\ jobs[Current(l)] = "running" /\ faults < MaxFaults /\ faults' = faults + 1
        /\ Goes(l, "broken")
  /\ UNCHANGED accepting

-----------------------------------------------------------------------------
(* The orchestrator meanwhile *)

Starts(k) ==
  /\ jobs[k] = "queued"
  /\ jobs' = [jobs EXCEPT ![k] = "running"]
  /\ UNCHANGED <<launch, accepting, faults>>

Ends(k) ==
  /\ jobs[k] \in {"running", "stopping", "astray"}
  /\ jobs' = [jobs EXCEPT ![k] = "ended"]
  /\ UNCHANGED <<launch, accepting, faults>>

Pauses ==
  /\ accepting' = ~accepting
  /\ UNCHANGED <<launch, jobs, faults>>

-----------------------------------------------------------------------------

Next ==
  \/ Pauses
  \/ \E l \in Launches :
       Checks(l) \/ Queues(l) \/ QueueFails(l) \/ AnswerLost(l) \/ Withdraws(l) \/ CancelsNext(l)
  \/ \E k \in JobKeys : Starts(k) \/ Ends(k)

Spec == Init /\ [][Next]_vars

-----------------------------------------------------------------------------
(* Properties *)

LaunchSteps == {"checking", "queuing", "withdrawing", "cancelling", "launched", "refused", "broken"}

\* Every launch is at one of its steps, with a platform to go on with.
TypeOK ==
  \A l \in Launches : launch[l].at \in LaunchSteps /\ launch[l].next \in 1..Len(PlatformsOf[l])

Order(l) == 1..Len(PlatformsOf[l])
JobOf(l, i) == jobs[<<l, PlatformsOf[l][i]>>]
Over == {"stopping", "ended", "cancelled"}

\* Two launches that checked the same device before either queued a job never hold it both (a job that
\* runs on astray holds none).
OneRolloutPerTarget == \A j, k \in JobKeys : j # k /\ Live(j) /\ Live(k) => TargetsOf[j] \cap TargetsOf[k] = {}

\* All of them or none: a launch that was answered as started has queued every platform's job; one
\* that was refused leaves no job waiting or running on, even when one started before it was cancelled -
\* but for one: the job after those it had queued, if it was already running when its submit failed.
AllOrNone ==
  \A l \in Launches : \A i \in Order(l) :
    /\ launch[l].at = "launched" => JobOf(l, i) \notin {"none", "astray"}
    /\ launch[l].at = "refused" =>
         JobOf(l, i) \in {"none"} \cup Over \/ (JobOf(l, i) = "astray" /\ i = launch[l].queued + 1)

\* submit_jobs: "all of them or none", answers of Redis that are lost included
AllOrNoneAtAll ==
  \A l \in Launches : \A i \in Order(l) : launch[l].at = "refused" => JobOf(l, i) \in {"none"} \cup Over

-----------------------------------------------------------------------------
(***************************************************************************)
(* Why AllOrNone holds: a launch queues its platforms one after the other, *)
(* and cancels them again in that order, so that at every moment those it  *)
(* has queued, and those it has cancelled, are the first ones; the job     *)
(* whose submit failed comes right after them, and no later one was begun. *)
(***************************************************************************)
\* What is made of the job whose submit failed (the next after those queued) and of the later ones.
Left(s, i, state) == state \in {"none", "ended"} \/ (state = "astray" /\ i = s.queued + 1)

\* The i-th platform's job at the launch's step s.
Placed(s, i, state) ==
  /\ s.at = "checking" => s.next = 1
  /\ s.at \in {"checking", "queuing", "withdrawing"} =>
       /\ s.queued = 0
       /\ i < s.next => state \notin {"none", "astray"}
       /\ i > s.next => state = "none"
  /\ s.at \in {"checking", "queuing"} /\ i = s.next => state = "none"
  /\ s.at = "withdrawing" /\ i = s.next => state \in {"queued", "running", "ended"}
  /\ s.at = "cancelling" =>
       /\ s.next <= s.queued
       /\ i < s.next => state \in Over
       /\ IF i <= s.queued THEN state \notin {"none", "astray"} ELSE Left(s, i, state)
  /\ s.at = "launched" => state \notin {"none", "astray"}
  /\ s.at = "refused" => IF i <= s.queued THEN state \in Over ELSE Left(s, i, state)

InOrder(l) ==
  /\ launch[l].queued <= Len(PlatformsOf[l])
  /\ \A i \in Order(l) : Placed(launch[l], i, JobOf(l, i))

JobStates == {"none", "queued", "running", "astray"} \cup Over
LaunchTyped ==
  /\ launch \in [Launches -> [at : LaunchSteps, next : Nat, queued : Nat]]
  /\ jobs \in [JobKeys -> JobStates]

LaunchInv == LaunchTyped /\ TypeOK /\ (\A l \in Launches : InOrder(l)) /\ OneRolloutPerTarget
=============================================================================
