------------------------------ MODULE Results ------------------------------
(***************************************************************************)
(* What a launch starts, whom a rollout trusts, how its commands are       *)
(* judged, how a person decides about the rest, and how all of it is       *)
(* backed up.  The five components share no state: a behaviour is of one   *)
(* of them, and the variables that are not this component's hold nothing.  *)
(***************************************************************************)
EXTENDS Naturals, FiniteSets, Sequences

CONSTANTS Off,
  Vocabulary, MaxCommands, Befores, Strangers, Abbreviations, Hyphened, Sections, Globals, Default,
  Devices, Reviewers, Jobs,
  Launches, PlatformsOf, TargetsOf, MaxFaults,
  Keys, KeyType, Runs, MaxSessions, MaxAttempts,
  Scripts, Scheduler, AppKeys, AppKey, Elsewhere, Period, RetryAfter, Keep,
  MaxTime, MaxKills, MaxErrors, MaxWorks

\* A launch has a job for each of its platforms (the keys of a dict, one at least).
ASSUME PlatformsAssumption ==
  \A l \in Launches :
    /\ PlatformsOf[l] \in Seq(STRING) /\ PlatformsOf[l] # <<>>
    /\ \A i, k \in 1..Len(PlatformsOf[l]) : PlatformsOf[l][i] = PlatformsOf[l][k] => i = k

\* A store has finitely many keys; a connection is given up sometime.
ASSUME KeysAssumption == IsFiniteSet(Keys) /\ MaxAttempts \in Nat

\* Backups are kept, one at least (backup_keep), and made by the app or by its scripts.
ASSUME BackupsAssumption ==
  /\ Period \in Nat \ {0} /\ Keep \in Nat \ {0} /\ MaxTime \in Nat
  /\ Scheduler \notin Scripts /\ AppKey \in AppKeys
  /\ \A b \in Elsewhere : b.key \in AppKeys /\ b.good \in BOOLEAN

VARIABLES part,
  device, push, others, judge,
  rows, review, audits,
  launch, jobs, accepting, faults,
  stored, on, blocked, run, signedIn,
  lock, folder, partials, db, keys, work, status, made, count

Proof == INSTANCE Evidence
Review == INSTANCE Reviews
Start == INSTANCE Launch
Trust == INSTANCE HostKeyStore
Backup == INSTANCE Backups WITH Keys <- AppKeys, MaxFaults <- MaxErrors

\* A job has a device at least, each with one of the statuses and some commands proven; the people who
\* decide are finitely many.
ASSUME JobsAssumption ==
  /\ Devices # {} /\ IsFiniteSet(Reviewers)
  /\ \A job \in Jobs, d \in Devices :
       job[d].status \in Review!Statuses /\ job[d].open \in BOOLEAN /\ job[d].proven \in Nat

-----------------------------------------------------------------------------

proofVars == <<device, push, others, judge>>
reviewVars == <<rows, review, audits>>
startVars == <<launch, jobs, accepting, faults>>
trustVars == <<stored, on, blocked, run, signedIn>>
backupVars == <<lock, folder, partials, db, keys, work, status, made, count>>
vars == <<part, proofVars, reviewVars, startVars, trustVars, backupVars>>

NoProof == device = Off /\ push = Off /\ others = Off /\ judge = Off
NoReview == rows = Off /\ review = Off /\ audits = Off
NoStart == launch = Off /\ jobs = Off /\ accepting = Off /\ faults = Off
NoTrust == stored = Off /\ on = Off /\ blocked = Off /\ run = Off /\ signedIn = Off
NoBackup ==
  /\ lock = Off /\ folder = Off /\ partials = Off /\ db = Off /\ keys = Off
  /\ work = Off /\ status = Off /\ made = Off /\ count = Off

Init ==
  \/ part = "evidence" /\ Proof!Init /\ NoReview /\ NoStart /\ NoTrust /\ NoBackup
  \/ part = "reviews" /\ Review!Init /\ NoProof /\ NoStart /\ NoTrust /\ NoBackup
  \/ part = "launch" /\ Start!Init /\ NoProof /\ NoReview /\ NoTrust /\ NoBackup
  \/ part = "host keys" /\ Trust!Init /\ NoProof /\ NoReview /\ NoStart /\ NoBackup
  \/ part = "backups" /\ Backup!Init /\ NoProof /\ NoReview /\ NoStart /\ NoTrust

Next ==
  /\ UNCHANGED part
  /\ \/ part = "evidence" /\ Proof!Next /\ UNCHANGED <<reviewVars, startVars, trustVars, backupVars>>
     \/ part = "reviews" /\ Review!Next /\ UNCHANGED <<proofVars, startVars, trustVars, backupVars>>
     \/ part = "launch" /\ Start!Next /\ UNCHANGED <<proofVars, reviewVars, trustVars, backupVars>>
     \/ part = "host keys" /\ Trust!Next /\ UNCHANGED <<proofVars, reviewVars, startVars, backupVars>>
     \/ part = "backups" /\ Backup!Next /\ UNCHANGED <<proofVars, reviewVars, startVars, trustVars>>

Spec == Init /\ [][Next]_vars

\* Evidence: a setting that the device refused and didn't hold before is not proven by another command's
\* line, a removal it objected to is not done while every line is still there, and a change reported as
\* nobody's is somebody else's (the judge's claims, conflicts and replacements).
EvidenceSafe ==
  part = "evidence" =>
    Proof!TypeOK /\ Proof!RefusedUnproven /\ Proof!ObjectedUnproven /\ Proof!OthersAreOthers

\* Reviews: of the decisions about a device one stands, the lists agree with the job's status while its
\* devices are decided, and a decision for all alike is about rows that are alike.
ReviewsSafe ==
  part = "reviews" =>
    Review!TypeOK /\ Review!OneDecisionStands /\ Review!ListsAgree /\ Review!AlikeIsAlike

\* Launch: a launch starts a rollout for every platform or leaves none (but for the one whose submit failed
\* when it was running), and a device is held by one rollout at a time, whoever else launches or rolls back
\* between its checks and its submits.
LaunchSafe == part = "launch" => Start!TypeOK /\ Start!AllOrNone /\ Start!OneRolloutPerTarget

\* HostKeyStore: a run's password goes to devices with an accepted key, the attempts of a connection end,
\* a late refusal takes no acceptance back, and a key is accepted by an admin or as the first one.
HostKeysSafe ==
  /\ [](part = "host keys" => Trust!TypeOK /\ Trust!PasswordsKept /\ Trust!RetriesEnd)
  /\ [][part = "host keys" => Trust!AcceptanceStays /\ Trust!AcceptedForAReason]_vars

\* Backups: a scheduled time has one scheduled backup, retention deletes only scheduled ones with newer
\* ones in the folder, a key that decrypts the database is at hand until a restore is cut off from its
\* commit, and the lock lets one worker in at a time until one goes stale.
BackupsSafe ==
  part = "backups" =>
    Backup!TypeOK /\ Backup!OncePerSlot /\ Backup!Retained /\ Backup!KeyAtHand /\ Backup!OneWorks

-----------------------------------------------------------------------------
(* What comments of the code say and the models do not: no configuration lists these *)

\* Reviews: a device's status is what the last decision made it.
StatusIsOutcome == part = "reviews" => Review!StatusIsOutcome
\* Backups: one worker at a time works in the folder, killed processes included.  Two that find the same
\* stale lock both pass the comparison of _take_over_stale, and the second one's unlink removes the lock
\* that the first one has just made.
OneAtATime == part = "backups" => Backup!OneAtATime
\* Backups: a key that decrypts the database is at hand even when a restore is cut off from its commit.
KeyAlwaysAtHand == part = "backups" => Backup!KeyAlwaysAtHand
\* Launch: a refused launch leaves no job running on even when Redis queued one and its answer was lost.
AllOrNoneAtAll == part = "launch" => Start!AllOrNoneAtAll
=============================================================================
