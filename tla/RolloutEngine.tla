--------------------------- MODULE RolloutEngine ---------------------------
(***************************************************************************)
(* One rollout's run: the devices' workers and the collection of their     *)
(* results (src/src/rollout/engine.py), one device's conversation          *)
(* (src/src/rollout/session.py) and how a change is finished on each kind  *)
(* of platform (src/src/rollout/platforms.py).                             *)
(*                                                                         *)
(* Beside what the program knows, `box` is the device itself: how many of  *)
(* the commands it took are live, saved, or in its candidate, whether a    *)
(* commit is still running there, and whether somebody else changed it.    *)
(* A call to the device is one step; its answer is the device's choice.    *)
(***************************************************************************)
EXTENDS Naturals, FiniteSets

CONSTANTS
  Devices,
  Plans,         \* rollouts: [verify: the verify flag, finish: device -> how its platform keeps a change:
                 \* "save" (a refusal is only logged), "command" (Gaia: tells its save state), "auto" and
                 \* "manual" (FortiOS by its cfg-save) or "commit"]
  Commands,      \* how many commands are pushed
  MaxWorkers,    \* devices configured at the same time
  CommitChecks   \* COMMIT_CHECKS

VARIABLES
  cancelFlag,  \* the cancel event
  push,        \* device -> where its worker is, and its PushResult once done
  box,         \* device -> the device itself
  told,        \* devices with an ACTION NEEDED line
  collected,   \* the futures _push_config has collected
  results      \* device -> its status, {} before the run has ended

vars == <<cancelFlag, push, box, told, collected, results>>

NoPush == [applied |-> FALSE, sent |-> 0, interrupted |-> FALSE, judged |-> FALSE, proven |-> 0,
           rejected |-> FALSE]

Init ==
  /\ cancelFlag = FALSE
  /\ \E plan \in Plans :
       push = [d \in Devices |->
                 [at |-> "pooled", finish |-> plan.finish[d], verify |-> plan.verify, sent |-> 0,
                  before |-> {}, checks |-> 0, anew |-> FALSE, compared |-> FALSE, result |-> NoPush]]
  /\ box = [d \in Devices |-> [live |-> 0, saved |-> 0, candidate |-> 0, committing |-> FALSE,
                               others |-> FALSE]]
  /\ told = {} /\ collected = {} /\ results = {}

Steps == {"pooled", "resolving", "connecting", "open", "entering", "pushing", "finishing", "leaving",
          "judging", "judging_anew", "new_session", "slow", "done", "cancelled"}
Over == {"done", "cancelled"}
InHand == {d \in Devices : push[d].at \notin Over \cup {"pooled"}}

Goes(d, there) == push' = [push EXCEPT ![d].at = there]
Returns(d, result) == push' = [push EXCEPT ![d].at = "done", ![d].result = result]
Fails(d) == Returns(d, [NoPush EXCEPT !.sent = push[d].sent])
Applied(d) == [NoPush EXCEPT !.applied = TRUE, !.sent = push[d].sent]
Tells(d) == told' = told \cup {d}
Interruptible(d) == push[d].finish # "commit"

-----------------------------------------------------------------------------
(* One device: up to the first command *)

\* _push_device in a worker of the pool: skipped once cancelled
Begins(d) ==
  /\ push[d].at = "pooled" /\ Cardinality(InHand) < MaxWorkers
  /\ Goes(d, IF cancelFlag THEN "cancelled" ELSE "resolving")
  /\ UNCHANGED <<cancelFlag, box, told, collected, results>>

\* commands_for: a token without a value: never connected to
Resolves(d) ==
  /\ push[d].at = "resolving"
  /\ Goes(d, "connecting") \/ Fails(d)
  /\ UNCHANGED <<cancelFlag, box, told, collected, results>>

\* A name without an address, a refused key, a wrong password, a timeout, no enable mode; a session
\* that can't be made ready and a refused key are told.
Connects(d) ==
  /\ push[d].at = "connecting"
  /\ \/ Goes(d, IF push[d].verify THEN "open" ELSE "entering") /\ UNCHANGED told
     \/ Fails(d) /\ (Tells(d) \/ UNCHANGED told)
  /\ UNCHANGED <<cancelFlag, box, collected, results>>

\* _snapshot: the configuration as it is now, or it couldn't be read
Reads(d) == [live |-> box[d].live, others |-> box[d].others]

ReadsBefore(d) ==
  /\ push[d].at = "open"
  /\ \E before \in {{Reads(d)}, {}} :
       push' = [push EXCEPT ![d].at = "entering", ![d].before = before]
  /\ UNCHANGED <<cancelFlag, box, told, collected, results>>

\* enter_config: refused (Junos, told), or any other error
EntersConfig(d) ==
  /\ push[d].at = "entering"
  /\ \/ Goes(d, "pushing") /\ UNCHANGED told
     \/ Fails(d) /\ (Tells(d) \/ UNCHANGED told)
  /\ UNCHANGED <<cancelFlag, box, collected, results>>

-----------------------------------------------------------------------------
(* The commands *)

\* What the next command does on the device: taken (live, or in the candidate) or refused.
TakesCommand(d) ==
  \/ UNCHANGED box
  \/ box' = IF push[d].finish = "commit" THEN [box EXCEPT ![d].candidate = @ + 1]
            ELSE [box EXCEPT ![d].live = @ + 1, ![d].saved = IF push[d].finish = "auto" THEN @ + 1 ELSE @]

\* A session that ends takes its candidate along.
Drops(d) == box' = [box EXCEPT ![d].candidate = 0]

\* The next command, answered: whatever the answer, the next one is sent.
Sends(d) ==
  /\ push[d].at = "pushing" /\ push[d].sent < Commands
  /\ TakesCommand(d)
  /\ push' = [push EXCEPT ![d].sent = @ + 1, ![d].at = IF @ = "pushing" /\ push[d].sent + 1 = Commands
                                                        THEN "finishing" ELSE @]
  /\ UNCHANGED <<cancelFlag, told, collected, results>>

\* The device stopped answering before the last command.
Stopped(d) == [NoPush EXCEPT !.applied = push[d].sent > 0, !.sent = push[d].sent + 1, !.interrupted = TRUE]

\* No prompt came back (ReadTimeout).  The last command on a platform without a commit: a new session
\* finishes it (a new hostname).  Before the last: nothing more is sent or saved, and a person is told.
\* With a commit: failed, the candidate gone with the session.
NoAnswer(d) ==
  /\ push[d].at = "pushing"
  /\ IF ~Interruptible(d)
     THEN Fails(d) /\ Drops(d) /\ UNCHANGED told
     ELSE /\ TakesCommand(d)
          /\ IF push[d].sent + 1 = Commands
             THEN push' = [push EXCEPT ![d].sent = @ + 1, ![d].at = "new_session"] /\ UNCHANGED told
             ELSE Returns(d, Stopped(d)) /\ Tells(d)
  /\ UNCHANGED <<cancelFlag, collected, results>>

\* The connection is lost, or any other error: failed.
Breaks(d) ==
  /\ push[d].at \in {"pushing", "finishing", "leaving"}
  /\ Fails(d) /\ Drops(d)
  /\ UNCHANGED <<cancelFlag, told, collected, results>>

-----------------------------------------------------------------------------
(* The finish *)

Committed(b) == [b EXCEPT !.live = b.candidate, !.saved = b.candidate, !.candidate = 0, !.committing = FALSE]

\* Commit.before_leave.  Nothing pending: not committed.  Committed.  Failed: discarded, and told
\* unless the candidate is seen to be empty (or the platform reverts by itself).  No answer within
\* COMMIT_TIMEOUT: the commit goes on on the device.
Commits(d) ==
  /\ push[d].at = "finishing" /\ push[d].finish = "commit"
  /\ \/ box[d].candidate = 0 /\ Goes(d, "leaving") /\ UNCHANGED <<box, told>>
     \/ box' = [box EXCEPT ![d] = Committed(@)] /\ Goes(d, "leaving") /\ UNCHANGED told
     \/ Drops(d) /\ Fails(d) /\ UNCHANGED told
     \/ Fails(d) /\ Tells(d) /\ UNCHANGED box
     \/ box' = [box EXCEPT ![d].committing = TRUE] /\ Goes(d, "slow") /\ UNCHANGED told
  /\ UNCHANGED <<cancelFlag, collected, results>>

\* What the device makes of a save: saved, or refused.
MaySave(d) == box' = [box EXCEPT ![d].saved = box[d].live] \/ UNCHANGED box

\* The others in config mode, before_finish: FortiOS closes its blocks and, with a cfg-save that is not
\* automatic, saves (the answer is only logged).
Leaves(d) ==
  /\ push[d].at = "finishing" /\ push[d].finish # "commit"
  /\ IF push[d].finish = "manual" THEN MaySave(d) ELSE UNCHANGED box
  /\ Goes(d, "leaving")
  /\ UNCHANGED <<cancelFlag, told, collected, results>>

AfterLeave(d) == IF push[d].finish \in {"save", "command"} THEN MaySave(d) ELSE UNCHANGED box

\* (a plausible bug: the platform's save state isn't asked)
ToldAfterSilent(d) == told
\* unsaved: where the platform has such a state, a person is told.
ToldAfter(d) == IF push[d].finish = "command" /\ box'[d].saved < box[d].live THEN told \cup {d} ELSE told

AfterFinish(d, judging) == IF push[d].before # {} THEN judging ELSE "done"
Applies(d, judging) == push' = [push EXCEPT ![d].at = AfterFinish(d, judging), ![d].result = Applied(d),
                                            ![d].anew = judging = "judging_anew"]

\* Out of config mode and saved, the save state asked; then judged when the configuration was read
\* before the push.
Finishes(d) ==
  /\ push[d].at = "leaving"
  /\ AfterLeave(d) /\ told' = ToldAfter(d)
  /\ Applies(d, "judging")
  /\ UNCHANGED <<cancelFlag, collected, results>>

\* No prompt came back, saved or not: with every command sent, a new session finishes (not after a commit).
FinishNoAnswer(d) ==
  /\ push[d].at = "leaving"
  /\ AfterLeave(d)
  /\ IF Interruptible(d) THEN Goes(d, "new_session") ELSE Fails(d)
  /\ UNCHANGED <<cancelFlag, told, collected, results>>

\* _finish_in_new_session: the answer is only logged, a person told when there is none; FortiOS has
\* nothing to finish there.
SavesAnew(d) ==
  /\ push[d].at = "new_session"
  /\ IF push[d].finish \in {"save", "command"} THEN MaySave(d) /\ (UNCHANGED told \/ Tells(d))
     ELSE UNCHANGED <<box, told>>
  /\ Applies(d, "judging_anew")
  /\ UNCHANGED <<cancelFlag, collected, results>>

-----------------------------------------------------------------------------
(* The judgement (src/src/rollout/evidence.py): what the configuration after shows of the commands *)

\* (a plausible bug: judged by what was sent)
ProvenSent(d) == push[d].sent
Proven(d) == Reads(d).live

\* Each command proven, or rejected (the device replied to it), or in review.
Judged(d) ==
  {[Applied(d) EXCEPT !.judged = TRUE, !.proven = Proven(d), !.rejected = rejected /\ Proven(d) < push[d].sent] :
     rejected \in BOOLEAN}

\* _judge without the save check: the configuration after can't be read (not verified), or judges; so
\* do a saved configuration that can't be read, and a platform that doesn't show one.
Judges(d) ==
  /\ push[d].at \in {"judging", "judging_anew"}
  /\ \E result \in Judged(d) \cup {Applied(d)} : Returns(d, result)
  /\ UNCHANGED <<cancelFlag, box, told, collected, results>>

\* (a plausible bug: lines that are missing in the saved configuration are only logged)
ToldUnsavedLogged(d) == told
ToldUnsaved(d) == IF box[d].saved < box[d].live THEN told \cup {d} ELSE told

\* _judge in the push's own session, _check_saved: the saved configuration is compared.
ComparesSaved(d) ==
  /\ push[d].at = "judging" /\ push[d].finish = "save"
  /\ \E result \in Judged(d) :
       push' = [push EXCEPT ![d].at = "done", ![d].result = result, ![d].compared = TRUE]
  /\ told' = ToldUnsaved(d)
  /\ UNCHANGED <<cancelFlag, box, collected, results>>

\* _after_slow_commit: has the configuration changed?
LooksCommitted(d) == Reads(d) \notin push[d].before

\* (a plausible bug: the configuration is read again without end)
ChecksLeftAlways(d) == TRUE
ChecksLeft(d) == push[d].checks + 1 < CommitChecks

\* Changed: judged by that reading.  Not yet: read again, CommitChecks times.  Not read, not changed
\* or nothing to compare with: failed, and told.
SlowCommit(d) ==
  /\ push[d].at = "slow"
  /\ \/ /\ push[d].before # {} /\ LooksCommitted(d)
        /\ \E result \in Judged(d) : Returns(d, result)
        /\ UNCHANGED told
     \/ /\ push[d].before # {} /\ ~LooksCommitted(d) /\ ChecksLeft(d)
        /\ push' = [push EXCEPT ![d].checks = @ + 1]
        /\ UNCHANGED told
     \/ Fails(d) /\ Tells(d)
  /\ UNCHANGED <<cancelFlag, box, collected, results>>

-----------------------------------------------------------------------------
(* The device goes on by itself: a slow commit ends, somebody else changes the configuration *)

CommitGoesThrough(d) ==
  /\ box[d].committing
  /\ box' = [box EXCEPT ![d] = Committed(@)]
  /\ UNCHANGED <<cancelFlag, push, told, collected, results>>

CommitComesToNothing(d) ==
  /\ box[d].committing
  /\ box' = [box EXCEPT ![d].committing = FALSE, ![d].candidate = 0]
  /\ UNCHANGED <<cancelFlag, push, told, collected, results>>

SomebodyChanges(d) ==
  /\ ~box[d].others /\ results = {}
  /\ box' = [box EXCEPT ![d].others = TRUE]
  /\ UNCHANGED <<cancelFlag, push, told, collected, results>>

-----------------------------------------------------------------------------
(* The run: a cancel (the page, Ctrl+C), the results collected, the end *)

Cancel ==
  /\ ~cancelFlag /\ results = {}
  /\ cancelFlag' = TRUE
  /\ UNCHANGED <<push, box, told, collected, results>>

\* (a plausible bug: only a device that was pushed to has a result to collect)
CollectableDone(d) == push[d].at = "done"
Collectable(d) == push[d].at \in Over

Collects(d) ==
  /\ d \notin collected /\ Collectable(d)
  /\ collected' = collected \cup {d}
  /\ UNCHANGED <<cancelFlag, push, box, told, results>>

\* classify: a device without a result was cancelled
Status(d) ==
  LET r == push[d].result
  IN  IF d \notin collected \/ push[d].at = "cancelled" THEN "cancelled"
      ELSE IF ~r.applied THEN "failed"
      ELSE IF r.interrupted THEN "partial"
      ELSE IF ~r.judged THEN "not verified"
      ELSE IF r.rejected THEN (IF r.proven > 0 THEN "partial" ELSE "failed")
      ELSE IF r.proven < r.sent THEN "review"
      ELSE "success"

\* (a plausible bug: the run returns at the first cancelled device)
AllInFirst == collected = Devices \/ \E d \in collected : push[d].at = "cancelled"
AllIn == collected = Devices

Ends ==
  /\ results = {} /\ AllIn
  /\ results' = {[device |-> d, status |-> Status(d)] : d \in Devices}
  /\ UNCHANGED <<cancelFlag, push, box, told, collected>>

-----------------------------------------------------------------------------

Worker(d) ==
  \/ Begins(d) \/ Resolves(d) \/ Connects(d) \/ ReadsBefore(d) \/ EntersConfig(d) \/ Sends(d)
  \/ NoAnswer(d) \/ Breaks(d) \/ Commits(d) \/ Leaves(d) \/ Finishes(d) \/ FinishNoAnswer(d)
  \/ SavesAnew(d) \/ SlowCommit(d) \/ Judges(d) \/ ComparesSaved(d)

Next ==
  \/ Cancel \/ Ends
  \/ \E d \in Devices : \/ Worker(d) \/ Collects(d)
                        \/ CommitGoesThrough(d) \/ CommitComesToNothing(d) \/ SomebodyChanges(d)

Spec == Init /\ [][Next]_vars

\* Every call to a device ends (it has a timeout), and the threads run.
Fairness == WF_vars(Ends) /\ \A d \in Devices : WF_vars(Worker(d)) /\ WF_vars(Collects(d))
FairSpec == Spec /\ Fairness

-----------------------------------------------------------------------------
(* Properties *)

\* Every part of the state has its kind of value.
TypeOK ==
  /\ cancelFlag \in BOOLEAN /\ told \subseteq Devices /\ collected \subseteq Devices
  /\ \A d \in Devices : /\ push[d].at \in Steps /\ push[d].sent \in 0..Commands
                        /\ push[d].checks < CommitChecks
                        /\ box[d].live \in 0..Commands /\ box[d].saved \in 0..Commands

Reported(d, statuses) == \E r \in results : r.device = d /\ r.status \in statuses

\* A device reported as a success has every command live, whatever the finish went through.
SuccessIsReal == \A d \in Devices : Reported(d, {"success"}) => box[d].live = Commands

\* Whether the code looks at what became of the save: the platform tells its save state and the push's
\* own session asked, or the saved configuration was compared.  Elsewhere a refused save is only logged.
SaveLookedAt(d) ==
  \/ push[d].finish = "command" /\ ~push[d].anew
  \/ push[d].finish = "save" /\ push[d].compared

\* A device reported as a success or as not verified has no commit that may still be running; and a
\* change of it that would be lost at the next reboot has its ACTION NEEDED line wherever the save is
\* looked at, and can't be on a platform that saves as it commits or by itself.
NothingSilent ==
  \A d \in Devices :
    Reported(d, {"success", "not verified"}) =>
      /\ ~box[d].committing
      /\ box[d].live > box[d].saved =>
           /\ push[d].finish \notin {"commit", "auto"}
           /\ SaveLookedAt(d) => d \in told

\* What push() and its reports suggest: nobody is left with an unsaved change unaware.
UnsavedTold ==
  \A d \in Devices : Reported(d, {"success", "not verified"}) /\ box[d].live > box[d].saved => d \in told

\* A device reported as cancelled was never connected to, even when the cancel comes between the
\* worker's look at the flag and its connection, and those under way are all waited for.
CancelledUntouched ==
  \A d \in Devices : Reported(d, {"cancelled"}) => push[d].at = "cancelled" /\ box[d].live = 0

\* What push() says of its result: "applied False when nothing took effect (no connection, a failed
\* commit)".
FailedUntouched == \A d \in Devices : push[d].at = "done" /\ ~push[d].result.applied => box[d].live = 0

\* The run ends, slow commits and devices that stop answering included.
RunEnds == <>(results # {})

-----------------------------------------------------------------------------
(***************************************************************************)
(* Why they hold.  Nothing is live before the first command, and on a      *)
(* platform with a commit nothing before the commit; only its session's    *)
(* first commit can be under way.  A device goes on to be judged with all  *)
(* commands sent, and with its change saved or a person told where the     *)
(* save was looked at.                                                     *)
(***************************************************************************)
PushResults == [applied : BOOLEAN, sent : Nat, interrupted : BOOLEAN, judged : BOOLEAN, proven : Nat,
                rejected : BOOLEAN]
Readings == [live : Nat, others : BOOLEAN]
Pushes == [at : Steps, finish : {"save", "command", "auto", "manual", "commit"}, verify : BOOLEAN, sent : Nat,
           before : SUBSET Readings, checks : Nat, anew : BOOLEAN, compared : BOOLEAN, result : PushResults]
Boxes == [live : Nat, saved : Nat, candidate : Nat, committing : BOOLEAN, others : BOOLEAN]
Typed ==
  /\ cancelFlag \in BOOLEAN /\ told \subseteq Devices /\ collected \subseteq Devices
  /\ push \in [Devices -> Pushes] /\ box \in [Devices -> Boxes]

\* What a device may hold while its worker is where it is.
Held(p, b) ==
  /\ b.live <= Commands /\ b.saved <= Commands /\ b.candidate <= Commands /\ p.checks < CommitChecks
  /\ p.at \in {"pooled", "resolving", "connecting", "open", "entering", "cancelled"} =>
       p.sent = 0 /\ b.live = 0 /\ b.candidate = 0
  /\ p.at # "done" => b.live <= p.sent /\ b.candidate <= p.sent
  /\ p.sent <= Commands /\ (p.at = "pushing" => p.sent < Commands)
  /\ p.at \in {"finishing", "leaving", "new_session", "slow", "judging", "judging_anew"} => p.sent = Commands
  /\ p.at = "slow" => p.finish = "commit"
  /\ p.finish \in {"commit", "auto"} => b.live = b.saved
  /\ p.at = "judging_anew" => p.anew
  /\ p.at # "done" => ~p.compared
  /\ p.finish = "commit" /\ p.at \in {"pushing", "finishing"} => b.live = 0
  /\ b.committing => p.finish = "commit" /\ p.at \in {"slow", "done"} /\ b.live = 0

\* A result that is reported as a success or as not verified.
Good(r) == r.applied /\ ~r.interrupted /\ (r.judged => ~r.rejected /\ r.proven >= r.sent)

\* A person is told of what is seen not to be saved, and of a commit that may run on.
Told(d) ==
  /\ SaveLookedAt(d) /\ (push[d].at = "judging" \/ (push[d].at = "done" /\ Good(push[d].result))) =>
       d \in told \/ box[d].live <= box[d].saved
  /\ push[d].at = "done" /\ Good(push[d].result) =>
       /\ ~box[d].committing
       /\ push[d].result.judged => box[d].live = Commands

\* The results are those of devices whose workers are over.
Recorded ==
  /\ \A d \in collected : push[d].at \in Over
  /\ results # {} => collected = Devices /\ results = {[device |-> d, status |-> Status(d)] : d \in Devices}

RunInv == Typed /\ Recorded /\ \A d \in Devices : Held(push[d], box[d]) /\ Told(d)
=============================================================================
